---- MODULE Spec2Model ----
(***************************************************************************)
(* Pipeline execution engine of vision-mark6: the per-pipeline executor    *)
(* (backend/app/cv/pipeline/executor.py), the camera input node            *)
(* (backend/app/cv/nodes/input_nodes.py), the line-crossing and zone       *)
(* intrusion nodes (backend/app/cv/nodes/analytics_nodes.py) and the       *)
(* pipeline manager (backend/app/cv/pipeline/manager.py).                  *)
(*                                                                         *)
(* Executors are objects on a heap `ex`; the manager's registry            *)
(* `pipelines` maps pipeline ids to heap indices.  Threads (the execution  *)
(* loop of an executor, the capture loop of a camera node) are sequences   *)
(* of program counters; a blocking lifecycle call (stop() and cleanup()    *)
(* wait in join(timeout)) is split at its waits, `call` holding the call   *)
(* in progress.                                                            *)
(***************************************************************************)
EXTENDS Integers, Sequences, FiniteSets, TLC

VARIABLES
    ex,         \* heap of PipelineExecutor objects (a sequence of records)
    pipelines,  \* PipelineManager.pipelines: pipeline id -> index into ex
    lock,       \* PipelineManager.lock is held
    call,       \* the lifecycle call that is blocked in a join, or idle
    last,       \* the last operation that ran and what it observed
    cam,        \* a CameraInputNode driven on its own, or NoNode
    an          \* an analytics node driven on its own, or NoNode

vars == <<ex, pipelines, lock, call, last, cam, an>>

\* no node is driven on its own
NoNode == [cls |-> "none"]

----------------------------------------------------------------------------
(* Bounds of the model *)

MaxThreads == 2     \* execution-loop threads spawned per executor
MaxFrames == 2      \* loop iterations after which no further one begins
MaxInits == 1       \* runs of initialize() per executor

\* the same three, for the specification of the single-loop executor
TickThreads == 1
TickFrames == 1
TickInits == 1

\* bounds of the manager specification: executors ever constructed, and the
\* bounds above for each of them
MgrExecutors == 2
MgrThreads == 1
MgrFrames == 1
MgrInits == 1

\* the same for the manager holding a single pipeline
OneThreads == 3
OneFrames == 2
OneInits == 2

----------------------------------------------------------------------------
(* Node registry and node objects *)

\* NODE_REGISTRY: node type -> class
NODE_REGISTRY ==
    [t \in {"camera_input", "yolo_detection", "face_detection", "people_counting"} |->
        CASE t = "camera_input" -> "CameraInputNode"
          [] t = "yolo_detection" -> "YOLODetectionNode"
          [] t = "face_detection" -> "FaceDetectionNode"
          [] t = "people_counting" -> "PeopleCountingNode"]

\* isinstance(node, InputNode)
IsInputNode(node) == node.cls \in {"CameraInputNode", "VideoFileInputNode"}

\* 'Processing' in node.__class__.__name__ : no class of the registry has it
ClassesNamedProcessing == {}

\* Queue(maxsize=config.get('buffer_size', 10)); the configurations below set it
BufferSize(cfg) == cfg.buffer_size

\* create_node(node_type, node_id, config) for a registered type
create_node(node_type, node_id) ==
    [node_id |-> node_id, cls |-> NODE_REGISTRY[node_type],
     is_initialized |-> FALSE, is_running |-> FALSE, stop_event |-> FALSE,
     capture |-> <<>>, queue |-> 0, released |-> FALSE]

\* is_alive() of a thread
Alive(pc) == pc # "dead"

\* CameraInputNode.start_stream
start_stream(node) ==
    IF ~node.is_initialized THEN node
    ELSE [node EXCEPT !.stop_event = FALSE,
                      !.capture = Append(@, "run"),
                      !.is_running = TRUE]

\* CameraInputNode.stop_stream up to its join: the flag is set
stop_stream_signal(node) == [node EXCEPT !.stop_event = TRUE]

\* the join of stop_stream has returned: capture_thread (the last one spawned)
\* has exited, or it is alive, blocked in cap.read(), and the 2 s timeout passed
stop_stream_joined(node) ==
    IF DOMAIN node.capture = {} THEN TRUE
    ELSE node.capture[Len(node.capture)] \in {"dead", "run"}

\* CameraInputNode.stop_stream after its join
stop_stream_finish(node) == [node EXCEPT !.is_running = FALSE]

----------------------------------------------------------------------------
(* Pipeline configurations *)

NodeCfg(id, type) == [node_id |-> id, node_type |-> type]
EdgeCfg(s, t) == [source_node_id |-> s, target_node_id |-> t]

CfgChain ==
    [nodes |-> <<NodeCfg("in", "camera_input"), NodeCfg("det", "yolo_detection"),
                 NodeCfg("cnt", "people_counting")>>,
     edges |-> <<EdgeCfg("in", "det"), EdgeCfg("det", "cnt")>>,
     fps |-> 30, buffer_size |-> 1]

CfgFan ==
    [nodes |-> <<NodeCfg("in", "camera_input"), NodeCfg("det", "yolo_detection"),
                 NodeCfg("face", "face_detection")>>,
     edges |-> <<EdgeCfg("in", "det"), EdgeCfg("in", "face")>>,
     fps |-> 30, buffer_size |-> 1]

\* the nodes of CfgChain, the counting node declared before the detector
CfgAnalyticsFirst ==
    [nodes |-> <<NodeCfg("in", "camera_input"), NodeCfg("cnt", "people_counting"),
                 NodeCfg("det", "yolo_detection")>>,
     edges |-> <<EdgeCfg("in", "det"), EdgeCfg("det", "cnt")>>,
     fps |-> 30, buffer_size |-> 1]

CfgNoInput ==
    [nodes |-> <<NodeCfg("det", "yolo_detection")>>,
     edges |-> <<>>, fps |-> 30, buffer_size |-> 1]

CfgBadEdge ==
    [nodes |-> <<NodeCfg("in", "camera_input")>>,
     edges |-> <<EdgeCfg("in", "ghost")>>,
     fps |-> 30, buffer_size |-> 1]

CfgUnknownType ==
    [nodes |-> <<NodeCfg("in", "camera_input"), NodeCfg("x", "hologram")>>,
     edges |-> <<EdgeCfg("in", "x")>>, fps |-> 30, buffer_size |-> 1]

CfgZeroFps ==
    [nodes |-> <<NodeCfg("in", "camera_input")>>,
     edges |-> <<>>, fps |-> 0, buffer_size |-> 1]

Configs == {CfgChain, CfgFan, CfgNoInput, CfgBadEdge, CfgUnknownType, CfgZeroFps}

ConfigIds(cfg) == {cfg.nodes[i].node_id : i \in DOMAIN cfg.nodes}

\* the configuration is valid: every type registered, at least one Input
\* node, every edge endpoint a configured node id
ValidConfig(cfg) ==
    /\ \A i \in DOMAIN cfg.nodes : cfg.nodes[i].node_type \in DOMAIN NODE_REGISTRY
    /\ \E i \in DOMAIN cfg.nodes : cfg.nodes[i].node_type = "camera_input"
    /\ \A j \in DOMAIN cfg.edges :
          /\ cfg.edges[j].source_node_id \in ConfigIds(cfg)
          /\ cfg.edges[j].target_node_id \in ConfigIds(cfg)

----------------------------------------------------------------------------
(* PipelineExecutor *)

\* PipelineExecutor.__init__
PipelineExecutor(cfg) ==
    [config |-> cfg, status |-> "stopped", nodes |-> <<>>, connections |-> <<>>,
     total_frames_processed |-> 0, errors_count |-> 0,
     stop_event |-> FALSE, pause_event |-> FALSE,
     loops |-> <<>>, error_message |-> "none",
     detached |-> {}, inits |-> 0]

\* the keys of self.nodes, in insertion order
NodeIds(e) == {e.nodes[i].node_id : i \in DOMAIN e.nodes}
NodeIndex(e, id) == CHOOSE i \in DOMAIN e.nodes : e.nodes[i].node_id = id

\* a node object that still has a live capture thread stays in the process
\* after the node map has dropped it
Lingering(node) == \E k \in DOMAIN node.capture : Alive(node.capture[k])

\* what can still be observed of a node object the node map has dropped: its
\* live capture threads, their flag, and whether its handle was released
Dropped(node) ==
    [node EXCEPT !.capture = SelectSeq(@, Alive), !.queue = 0, !.is_running = FALSE]

\* self.nodes[node_id] = node : a new key is appended, an existing key keeps
\* its place and the object it held is dropped
PutNode(e, node) ==
    IF node.node_id \in NodeIds(e)
    THEN LET i == NodeIndex(e, node.node_id) IN
         [e EXCEPT !.nodes[i] = node,
                   !.detached = IF Lingering(e.nodes[i])
                                THEN @ \cup {Dropped(e.nodes[i])} ELSE @]
    ELSE [e EXCEPT !.nodes = Append(@, node)]

\* PipelineExecutor._validate_pipeline: the error message, "none" when valid
validate_pipeline(e) ==
    IF ~\E i \in DOMAIN e.nodes : IsInputNode(e.nodes[i]) THEN "no_input_node"
    ELSE IF \E j \in DOMAIN e.connections :
               \/ e.connections[j].source_node_id \notin NodeIds(e)
               \/ e.connections[j].target_node_id \notin NodeIds(e)
         THEN "edge_node_not_found"
         ELSE "none"

\* the error_message a node sets when its initialize() reports failure
NodeError(node_id) == "erro em " \o node_id

\* the node loop of PipelineExecutor.initialize from configured node i on;
\* failAt is the first configured node whose initialize() reports failure
\* (0: none does).  st = [e, ok, failed], failed holding the node whose
\* initialize() was called and reported failure
RECURSIVE InitNodes(_, _, _)
InitNodes(st, i, failAt) ==
    IF ~st.ok \/ i > Len(st.e.config.nodes) THEN st
    ELSE LET nc == st.e.config.nodes[i] IN
         IF nc.node_type \notin DOMAIN NODE_REGISTRY
         THEN [e |-> [st.e EXCEPT !.error_message = "create_node_failed",
                                  !.status = "error"],
               ok |-> FALSE, failed |-> {}]
         ELSE IF i = failAt
         THEN [e |-> [st.e EXCEPT
                         !.error_message = "Falha ao inicializar no " \o nc.node_id
                                               \o ": " \o NodeError(nc.node_id),
                         !.status = "error"],
               ok |-> FALSE, failed |-> {nc.node_id}]
         ELSE InitNodes(
                [e |-> PutNode(st.e, [create_node(nc.node_type, nc.node_id) EXCEPT
                                    !.is_initialized = TRUE]),
                 ok |-> TRUE, failed |-> {}],
                i + 1, failAt)

\* PipelineExecutor.initialize: [e, ok]
initialize(e, failAt) ==
    LET s0 == [e EXCEPT !.status = "starting", !.inits = @ + 1]
        s1 == InitNodes([e |-> s0, ok |-> TRUE, failed |-> {}], 1, failAt)
        s2 == [s1.e EXCEPT !.connections = s1.e.config.edges]
        msg == validate_pipeline(s2)
    IN  IF ~s1.ok THEN s1
        ELSE IF msg # "none"
             THEN [e |-> [s2 EXCEPT !.error_message = msg, !.status = "error"],
                   ok |-> FALSE, failed |-> {}]
             ELSE [e |-> s2, ok |-> TRUE, failed |-> {}]

\* start() runs initialize() first
NeedsInitialize(e) == e.status # "stopped" /\ e.status # "paused"

\* the try block of PipelineExecutor.start
start_threads(e) ==
    [e EXCEPT !.stop_event = FALSE,
              !.pause_event = FALSE,
              !.nodes = [i \in DOMAIN e.nodes |->
                            IF IsInputNode(e.nodes[i]) THEN start_stream(e.nodes[i])
                            ELSE e.nodes[i]],
              !.loops = Append(@, [pc |-> "check", cancelled |-> FALSE]),
              !.status = "running"]

\* start as it would be if it went on whatever initialize() returns
start_unchecked(e, failAt) ==
    IF e.status = "running" THEN [e |-> e, ok |-> TRUE, failed |-> {}]
    ELSE IF NeedsInitialize(e)
         THEN LET r == initialize(e, failAt) IN
              [e |-> start_threads(r.e), ok |-> TRUE, failed |-> r.failed]
         ELSE [e |-> start_threads(e), ok |-> TRUE, failed |-> {}]

\* PipelineExecutor.start: [e, ok, failed]
start(e, failAt) ==
    IF e.status = "running" THEN [e |-> e, ok |-> TRUE, failed |-> {}]
    ELSE IF NeedsInitialize(e)
         THEN LET r == initialize(e, failAt) IN
              IF ~r.ok THEN r ELSE [e |-> start_threads(r.e), ok |-> TRUE, failed |-> {}]
         ELSE [e |-> start_threads(e), ok |-> TRUE, failed |-> {}]

\* PipelineExecutor.stop up to its joins: status, the flags, stop_stream's flag
stop_signal(e) ==
    [e EXCEPT !.status = "stopping",
              !.stop_event = TRUE,
              !.loops = [t \in DOMAIN e.loops |->
                            IF Alive(e.loops[t].pc)
                            THEN [e.loops[t] EXCEPT !.cancelled = TRUE]
                            ELSE e.loops[t]],
              !.nodes = [i \in DOMAIN e.nodes |->
                            IF IsInputNode(e.nodes[i]) THEN stop_stream_signal(e.nodes[i])
                            ELSE e.nodes[i]]]

\* the joins of stop() have returned: every stop_stream join, and the join of
\* execution_thread (the last loop spawned), which returns when the thread has
\* exited or, the thread being inside an iteration, when the 5 s timeout has
\* passed
stop_joined(e) ==
    /\ \A i \in DOMAIN e.nodes : IsInputNode(e.nodes[i]) => stop_stream_joined(e.nodes[i])
    /\ IF DOMAIN e.loops = {} THEN TRUE
       ELSE e.loops[Len(e.loops)].pc \in {"dead", "tick", "store", "chain"}

\* PipelineExecutor.stop after its joins
stop_finish(e) ==
    [e EXCEPT !.status = "stopped",
              !.nodes = [i \in DOMAIN e.nodes |->
                            IF IsInputNode(e.nodes[i]) THEN stop_stream_finish(e.nodes[i])
                            ELSE e.nodes[i]]]

\* pause as it would be without its test of the status
pause_unguarded(e) ==
    [e EXCEPT !.pause_event = TRUE, !.status = "paused"]

\* PipelineExecutor.pause
pause(e) ==
    IF e.status = "running"
    THEN [e EXCEPT !.pause_event = TRUE, !.status = "paused"]
    ELSE e

\* resume as it would be if it restarted the statistics
resume_resetting(e) ==
    IF e.status = "paused"
    THEN [e EXCEPT !.pause_event = FALSE, !.status = "running",
                   !.total_frames_processed = 0, !.errors_count = 0]
    ELSE e

\* PipelineExecutor.resume
resume(e) ==
    IF e.status = "paused"
    THEN [e EXCEPT !.pause_event = FALSE, !.status = "running"]
    ELSE e

\* node.cleanup() up to the join of its stop_stream
cleanup_signal(e) ==
    [e EXCEPT !.nodes = [i \in DOMAIN e.nodes |->
                            IF IsInputNode(e.nodes[i]) THEN stop_stream_signal(e.nodes[i])
                            ELSE e.nodes[i]]]

\* node.cleanup() after the join: the capture handle or model is released
node_cleanup(node) == [stop_stream_finish(node) EXCEPT !.released = TRUE]

\* cleanup_nodes as it would be if the first cleanup() that raises ended the
\* loop over the nodes
cleanup_nodes_aborting(e, fails) ==
    LET Reached(i) == \A j \in 1..(i - 1) : e.nodes[j].node_id \notin fails
        After(i) == IF Reached(i) /\ e.nodes[i].node_id \notin fails
                    THEN node_cleanup(e.nodes[i])
                    ELSE stop_stream_finish(e.nodes[i])
    IN  [e |-> [e EXCEPT !.detached = @ \cup {Dropped(After(i)) :
                                       i \in {j \in DOMAIN e.nodes : Lingering(e.nodes[j])}},
                         !.nodes = <<>>],
         invoked |-> {e.nodes[i].node_id : i \in {j \in DOMAIN e.nodes : Reached(j)}}]

\* the node loop of PipelineExecutor.cleanup and self.nodes.clear(): [e,
\* invoked].  fails holds the nodes whose cleanup() raises, which it does
\* before it has released the node's handle; the loop catches the exception
\* and goes on to the next node
cleanup_nodes(e, fails) ==
    LET After(i) == IF e.nodes[i].node_id \notin fails THEN node_cleanup(e.nodes[i])
                    ELSE stop_stream_finish(e.nodes[i])
    IN  [e |-> [e EXCEPT !.detached = @ \cup {Dropped(After(i)) :
                                       i \in {j \in DOMAIN e.nodes : Lingering(e.nodes[j])}},
                         !.nodes = <<>>],
         invoked |-> {e.nodes[i].node_id : i \in DOMAIN e.nodes}]

----------------------------------------------------------------------------
(* The execution loop *)

\* PipelineExecutor._get_processing_order: node ids, Input nodes first, then
\* the nodes whose class name holds 'Processing', then the rest
get_processing_order(e) ==
    LET ids(keep(_)) ==
            LET sel == SelectSeq(e.nodes, keep) IN [i \in DOMAIN sel |-> sel[i].node_id]
        IsInput(n) == IsInputNode(n)
        IsProc(n) == ~IsInputNode(n) /\ n.cls \in ClassesNamedProcessing
        IsRest(n) == ~IsInputNode(n) /\ n.cls \notin ClassesNamedProcessing
    IN  ids(IsInput) \o ids(IsProc) \o ids(IsRest)

\* _get_node_input_data as it would be if the last connected source won
get_node_input_data_last(e, node_id, available_data) ==
    LET input_connections ==
            SelectSeq(e.connections, LAMBDA conn : conn.target_node_id = node_id)
        found == {j \in DOMAIN input_connections :
                     input_connections[j].source_node_id \in available_data}
    IN  IF found = {} THEN {}
        ELSE {input_connections[CHOOSE j \in found : \A k \in found : k <= j].source_node_id}

\* PipelineExecutor._get_node_input_data: the source whose output is returned,
\* that of the first connection into node_id, in the order of self.connections,
\* whose source has an output in available_data; empty when None is returned
get_node_input_data(e, node_id, available_data) ==
    LET input_connections ==
            SelectSeq(e.connections, LAMBDA conn : conn.target_node_id = node_id)
        found == {j \in DOMAIN input_connections :
                     input_connections[j].source_node_id \in available_data}
    IN  IF found = {} THEN {}
        ELSE {input_connections[CHOOSE j \in found : \A k \in found : j <= k].source_node_id}

\* chain_step as it would be if a failing node ended the tick
chain_step_aborting(e, acc, node_id, fails) ==
    IF node_id \notin NodeIds(e) \/ acc.failed # {} THEN acc
    ELSE IF IsInputNode(e.nodes[NodeIndex(e, node_id)]) THEN acc
    ELSE IF get_node_input_data(e, node_id, acc.outputs) = {} THEN acc
    ELSE IF node_id \notin fails
         THEN [acc EXCEPT !.outputs = @ \cup {node_id}, !.invoked = @ \cup {node_id}]
         ELSE [acc EXCEPT !.failed = @ \cup {node_id}, !.invoked = @ \cup {node_id}]

\* one node of the loop of _process_node_chain; fails holds the nodes whose
\* process() returns success=False when invoked.  acc = [outputs, invoked, failed]
chain_step(e, acc, node_id, fails) ==
    IF node_id \notin NodeIds(e) THEN acc
    ELSE IF IsInputNode(e.nodes[NodeIndex(e, node_id)]) THEN acc
    ELSE IF get_node_input_data(e, node_id, acc.outputs) = {} THEN acc
    ELSE IF node_id \notin fails
         THEN [acc EXCEPT !.outputs = @ \cup {node_id}, !.invoked = @ \cup {node_id}]
         ELSE [acc EXCEPT !.failed = @ \cup {node_id}, !.invoked = @ \cup {node_id}]

\* PipelineExecutor._process_node_chain over the processing order from k on
RECURSIVE process_node_chain(_, _, _, _, _)
process_node_chain(e, order, k, acc, fails) ==
    IF k > Len(order) THEN acc
    ELSE process_node_chain(e, order, k + 1, chain_step(e, acc, order[k], fails), fails)

\* the error counter as it would be if it counted failing ticks
count_errors_per_tick(errors_count, failed) ==
    IF failed = {} THEN errors_count ELSE errors_count + 1

\* self.stats.errors_count += 1 in the failure branch of _process_node_chain,
\* once for each node that failed
count_errors(errors_count, failed) == errors_count + Cardinality(failed)

\* the Input nodes whose get_next_frame() returns a frame
PolledInputs(e) ==
    {e.nodes[i].node_id : i \in {j \in DOMAIN e.nodes :
                                    IsInputNode(e.nodes[j]) /\ e.nodes[j].queue > 0}}

\* CameraInputNode.get_next_frame : frame_queue.get_nowait()
get_next_frame(node) == IF node.queue > 0 THEN [node EXCEPT !.queue = @ - 1] ELSE node

\* PipelineExecutor._process_frame: [e, outputs, invoked, failed]
process_frame(e, fails) ==
    LET inputs == PolledInputs(e)
        polled == [e EXCEPT !.nodes = [i \in DOMAIN e.nodes |->
                                           IF IsInputNode(e.nodes[i])
                                           THEN get_next_frame(e.nodes[i])
                                           ELSE e.nodes[i]]]
        none == [outputs |-> {}, invoked |-> {}, failed |-> {}]
    IN  IF inputs = {} THEN [e |-> polled] @@ none
        ELSE LET acc == process_node_chain(polled, get_processing_order(polled), 1,
                                           [none EXCEPT !.outputs = inputs], fails)
             IN  [e |-> [polled EXCEPT !.errors_count = count_errors(@, acc.failed)]]
                 @@ acc

\* self.stats.total_frames_processed += 1, whatever _process_frame did
count_frame(e, inputs) == e.total_frames_processed + 1

\* target_frame_time = 1.0 / target_fps raises ZeroDivisionError
LoopCrashes(e) == e.config.fps = 0

\* one iteration of PipelineExecutor._execution_loop by thread t, from
\* _process_frame to the pacing sleep: [e, inputs, outputs, invoked, failed]
loop_iteration(e, t, fails) ==
    LET inputs == PolledInputs(e)
        r == process_frame(e, fails)
        counted == [r.e EXCEPT !.total_frames_processed = count_frame(e, inputs)]
        after == IF LoopCrashes(e)
                 THEN [counted EXCEPT !.error_message = "execution_loop_error",
                                      !.status = "error",
                                      !.errors_count = @ + 1,
                                      !.loops[t] = [pc |-> "dead", cancelled |-> FALSE]]
                 ELSE [counted EXCEPT !.loops[t].pc = "check"]
    IN  [e |-> after, inputs |-> inputs, outputs |-> r.outputs,
         invoked |-> r.invoked, failed |-> r.failed]

\* the loop's test `while not self.stop_event.is_set()` by thread t, followed by
\* the pause gate: the thread exits or begins an iteration
loop_check(e, t) ==
    IF e.stop_event THEN [e EXCEPT !.loops[t] = [pc |-> "dead", cancelled |-> FALSE]]
    ELSE [e EXCEPT !.loops[t].pc = "tick"]

----------------------------------------------------------------------------
(* The capture loop of a camera node *)

\* one pass of the loop of CameraInputNode._capture_frames by thread k: the
\* test of stop_event, cap.read() returning ret, and the put into the queue (a
\* full queue drops its oldest frame); a failed read ends the thread, no
\* reconnect_attempts being configured
capture_frames(node, k, ret, size) ==
    IF node.stop_event \/ ~ret THEN [node EXCEPT !.capture[k] = "dead"]
    ELSE [node EXCEPT !.queue = IF @ < size THEN @ + 1 ELSE @]

----------------------------------------------------------------------------
(* Operations on one executor, called directly by a single caller *)

None == {}

\* notified holds the statuses passed to the status callback by
\* _notify_status_change during the step
Event(op, e, ok) ==
    [op |-> op, e |-> e, p |-> "none", ok |-> ok, notified |-> <<>>,
     inputs |-> None, outputs |-> None, invoked |-> None, failed |-> None]

NoConfig == [nodes |-> <<>>, edges |-> <<>>, fps |-> 30, buffer_size |-> 1]

\* on whose behalf a call runs: the caller itself, or a manager operation on
\* pipeline p that holds the registry lock
Direct == [mgr |-> "none", p |-> "none", cfg |-> NoConfig, restart |-> FALSE]

Idle == [op |-> "idle", e |-> 0, then |-> "none", by |-> Direct]
Blocked(op, e, then, by) == [op |-> op, e |-> e, then |-> then, by |-> by]

FailAts(e) == 0..Len(e.config.nodes)

\* executor.initialize()
Initialize(e, maxInits) ==
    /\ call = Idle
    /\ ex[e].inits < maxInits
    /\ \E failAt \in FailAts(ex[e]) :
          LET r == initialize(ex[e], failAt) IN
          /\ ex' = [ex EXCEPT ![e] = r.e]
          /\ last' = [Event("initialize", e, r.ok) EXCEPT
                         !.notified = <<"starting">>, !.failed = r.failed]
    /\ UNCHANGED <<pipelines, lock, call>>
    /\ UNCHANGED <<cam, an>>

\* executor.start()
Start(e, maxThreads, maxInits) ==
    /\ call = Idle
    /\ ex[e].status # "running" => Len(ex[e].loops) < maxThreads
    /\ (ex[e].status # "running" /\ NeedsInitialize(ex[e])) => ex[e].inits < maxInits
    /\ \E failAt \in FailAts(ex[e]) :
          LET r == start(ex[e], failAt) IN
          /\ ex' = [ex EXCEPT ![e] = r.e]
          /\ last' = [Event("start", e, r.ok) EXCEPT
                         !.failed = r.failed,
                         !.notified =
                             IF ex[e].status = "running" THEN <<>>
                             ELSE (IF NeedsInitialize(ex[e]) THEN <<"starting">> ELSE <<>>)
                                  \o (IF r.ok THEN <<"running">> ELSE <<>>)]
    /\ UNCHANGED <<pipelines, lock, call>>
    /\ UNCHANGED <<cam, an>>

\* executor.stop() up to its joins; on a stopped executor it returns at once.
\* A manager operation keeps the registry lock while the call is blocked
stop_call(e, by) ==
    /\ call = Idle
    /\ IF ex[e].status = "stopped"
       THEN UNCHANGED <<ex, call, lock>>
       ELSE /\ ex' = [ex EXCEPT ![e] = stop_signal(ex[e])]
            /\ call' = Blocked("stop", e, "return", by)
            /\ lock' = (by.mgr # "none")
    /\ last' = [Event("stop", e, TRUE) EXCEPT
                   !.notified = IF ex[e].status = "stopped" THEN <<>> ELSE <<"stopping">>]
    /\ UNCHANGED pipelines
    /\ UNCHANGED <<cam, an>>

\* executor.stop() returns from its joins
StopReturn(e) ==
    /\ call.op = "stop" /\ call.e = e /\ call.then = "return"
    /\ stop_joined(ex[e])
    /\ ex' = [ex EXCEPT ![e] = stop_finish(ex[e])]
    /\ call' = Idle
    /\ lock' = FALSE
    /\ last' = [Event("stop_return", e, TRUE) EXCEPT !.notified = <<"stopped">>]
    /\ UNCHANGED pipelines
    /\ UNCHANGED <<cam, an>>

\* executor.pause()
Pause(e) ==
    /\ call = Idle
    /\ ex' = [ex EXCEPT ![e] = pause(ex[e])]
    /\ last' = [Event("pause", e, TRUE) EXCEPT
                   !.notified = IF ex[e].status = "running" THEN <<"paused">> ELSE <<>>]
    /\ UNCHANGED <<pipelines, lock, call>>
    /\ UNCHANGED <<cam, an>>

\* executor.resume()
Resume(e) ==
    /\ call = Idle
    /\ ex' = [ex EXCEPT ![e] = resume(ex[e])]
    /\ last' = [Event("resume", e, TRUE) EXCEPT
                   !.notified = IF ex[e].status = "paused" THEN <<"running">> ELSE <<>>]
    /\ UNCHANGED <<pipelines, lock, call>>
    /\ UNCHANGED <<cam, an>>

\* executor.cleanup() up to the first join: its stop(), or, the executor being
\* stopped already, the stop_stream of the first node.cleanup()
cleanup_call(e, by) ==
    /\ call = Idle
    /\ IF ex[e].status = "stopped"
       THEN /\ ex' = [ex EXCEPT ![e] = cleanup_signal(ex[e])]
            /\ call' = Blocked("cleanup", e, "release", by)
       ELSE /\ ex' = [ex EXCEPT ![e] = stop_signal(ex[e])]
            /\ call' = Blocked("stop", e, "cleanup", by)
    /\ lock' = (by.mgr # "none")
    /\ last' = [Event("cleanup", e, TRUE) EXCEPT
                   !.notified = IF ex[e].status = "stopped" THEN <<>> ELSE <<"stopping">>]
    /\ UNCHANGED pipelines
    /\ UNCHANGED <<cam, an>>

\* the stop() inside cleanup() returns from its joins; the node cleanups begin
CleanupStopped(e) ==
    /\ call.op = "stop" /\ call.e = e /\ call.then = "cleanup"
    /\ stop_joined(ex[e])
    /\ ex' = [ex EXCEPT ![e] = cleanup_signal(stop_finish(ex[e]))]
    /\ call' = Blocked("cleanup", e, "release", call.by)
    /\ last' = [Event("stop_return", e, TRUE) EXCEPT !.notified = <<"stopped">>]
    /\ UNCHANGED <<pipelines, lock>>
    /\ UNCHANGED <<cam, an>>

\* the joins of the node cleanups have returned
cleanup_joined(e) ==
    \A i \in DOMAIN e.nodes : IsInputNode(e.nodes[i]) => stop_stream_joined(e.nodes[i])

\* executor.cleanup() releases the nodes, clears the node map and returns
CleanupReturn(e) ==
    /\ call = Blocked("cleanup", e, "release", Direct)
    /\ cleanup_joined(ex[e])
    /\ \E fails \in SUBSET NodeIds(ex[e]) :
          LET r == cleanup_nodes(ex[e], fails) IN
          /\ ex' = [ex EXCEPT ![e] = r.e]
          /\ last' = [Event("cleanup_return", e, TRUE) EXCEPT
                         !.invoked = r.invoked, !.failed = fails]
    /\ call' = Idle
    /\ UNCHANGED <<pipelines, lock>>
    /\ UNCHANGED <<cam, an>>

----------------------------------------------------------------------------
(* Thread steps *)

\* an execution-loop thread evaluates the loop test; a paused loop sleeps and
\* tests again, which changes nothing
LoopCheck(e, t, maxFrames) ==
    /\ ex[e].loops[t].pc = "check"
    /\ ex[e].stop_event \/ ~ex[e].pause_event
    /\ ex[e].stop_event \/ ex[e].total_frames_processed < maxFrames
    /\ ex' = [ex EXCEPT ![e] = loop_check(ex[e], t)]
    /\ last' = Event("step", e, TRUE)
    /\ UNCHANGED <<pipelines, lock, call>>
    /\ UNCHANGED <<cam, an>>

\* the non-Input nodes of the node map
ProcessNodes(e) ==
    {e.nodes[i].node_id : i \in {j \in DOMAIN e.nodes : ~IsInputNode(e.nodes[j])}}

\* an execution-loop thread runs one iteration
LoopTick(e, t) ==
    /\ ex[e].loops[t].pc = "tick"
    /\ \E fails \in SUBSET ProcessNodes(ex[e]) :
          LET r == loop_iteration(ex[e], t, fails) IN
          /\ ex' = [ex EXCEPT ![e] = r.e]
          /\ last' = [Event("tick", e, ~LoopCrashes(ex[e])) EXCEPT
                         !.inputs = r.inputs, !.outputs = r.outputs,
                         !.invoked = r.invoked, !.failed = r.failed]
    /\ UNCHANGED <<pipelines, lock, call>>
    /\ UNCHANGED <<cam, an>>

\* a capture thread of a node of the node map takes a step
CaptureStep(e, i, k) ==
    LET node == ex[e].nodes[i] IN
    /\ Alive(node.capture[k])
    /\ \E ret \in BOOLEAN :
          ex' = [ex EXCEPT ![e].nodes[i] =
                    capture_frames(node, k, ret, BufferSize(ex[e].config))]
    /\ last' = Event("step", e, TRUE)
    /\ UNCHANGED <<pipelines, lock, call>>
    /\ UNCHANGED <<cam, an>>

\* a capture thread of a node the node map has dropped takes a step; reading a
\* released capture handle fails
DetachedCaptureStep(e, node, k) ==
    /\ Alive(node.capture[k])
    /\ \E ret \in IF node.released THEN {FALSE} ELSE BOOLEAN :
          ex' = [ex EXCEPT ![e].detached =
                    {n \in (@ \ {node}) \cup {Dropped(capture_frames(node, k, ret, 0))} :
                        Lingering(n)}]
    /\ last' = Event("step", e, TRUE)
    /\ UNCHANGED <<pipelines, lock, call>>
    /\ UNCHANGED <<cam, an>>

Threads(e, maxFrames) ==
    \/ \E t \in DOMAIN ex[e].loops : LoopCheck(e, t, maxFrames) \/ LoopTick(e, t)
    \/ \E i \in DOMAIN ex[e].nodes :
          \E k \in DOMAIN ex[e].nodes[i].capture : CaptureStep(e, i, k)
    \/ \E node \in ex[e].detached :
          \E k \in DOMAIN node.capture : DetachedCaptureStep(e, node, k)

----------------------------------------------------------------------------
(* One executor driven directly *)

Init ==
    /\ \E cfg \in Configs : ex = <<PipelineExecutor(cfg)>>
    /\ pipelines = <<>>
    /\ lock = FALSE
    /\ call = Idle
    /\ last = Event("init", 1, TRUE)
    /\ cam = NoNode
    /\ an = NoNode

\* the calls that do not spawn, and the calls' returns
Calls(e) ==
    \/ stop_call(e, Direct)
    \/ StopReturn(e)
    \/ Pause(e)
    \/ Resume(e)
    \/ cleanup_call(e, Direct)
    \/ CleanupStopped(e)
    \/ CleanupReturn(e)

Next ==
    \/ Initialize(1, MaxInits)
    \/ Start(1, MaxThreads, MaxInits)
    \/ Calls(1)
    \/ Threads(1, MaxFrames)

Spec == Init /\ [][Next]_vars

InitTick ==
    /\ \E cfg \in {CfgChain, CfgFan, CfgZeroFps} : ex = <<PipelineExecutor(cfg)>>
    /\ pipelines = <<>>
    /\ lock = FALSE
    /\ call = Idle
    /\ last = Event("init", 1, TRUE)
    /\ cam = NoNode
    /\ an = NoNode

NextTick ==
    \/ Initialize(1, TickInits)
    \/ Start(1, TickThreads, TickInits)
    \/ Calls(1)
    \/ Threads(1, TickFrames)

SpecTick == InitTick /\ [][NextTick]_vars

\* the same executor, configured with an analytics node declared before the
\* processing node that feeds it, or with the chain whose counting node is
\* connected to the detector first and to the input node second
InitOrder ==
    /\ \E cfg \in {CfgAnalyticsFirst,
                    [CfgChain EXCEPT !.edges = <<EdgeCfg("det", "cnt"), EdgeCfg("in", "cnt"),
                                                 EdgeCfg("in", "det")>>]} :
          ex = <<PipelineExecutor(cfg)>>
    /\ pipelines = <<>>
    /\ lock = FALSE
    /\ call = Idle
    /\ last = Event("init", 1, TRUE)
    /\ cam = NoNode
    /\ an = NoNode

SpecOrder == InitOrder /\ [][NextTick]_vars

----------------------------------------------------------------------------
(* PipelineManager: the registry self.pipelines maps a pipeline id to an
   executor of the heap ex; lock is self.lock, held for the whole of every
   operation, the executor call inside it included *)

PipelineIds == {"A", "B"}

MgrConfigs == {CfgChain, CfgZeroFps}

\* the same test as it would be if it answered True
NotFoundAsSuccess(op, p) ==
    /\ last' = [Event(op, 0, TRUE) EXCEPT !.p = p]
    /\ UNCHANGED <<ex, pipelines, lock, call>>
    /\ UNCHANGED <<cam, an>>

\* "if pipeline_id not in self.pipelines: return False" (None for get_status)
NotFound(op, p) ==
    /\ last' = [Event(op, 0, FALSE) EXCEPT !.p = p]
    /\ UNCHANGED <<ex, pipelines, lock, call>>
    /\ UNCHANGED <<cam, an>>

\* create_pipeline as it would be if it replaced the executor of a registered id
create_pipeline_replacing(p, cfg) ==
    /\ lock = FALSE
    /\ Len(ex) < MgrExecutors
    /\ ex' = Append(ex, PipelineExecutor(cfg))
    /\ pipelines' = (p :> Len(ex) + 1) @@ [q \in DOMAIN pipelines \ {p} |-> pipelines[q]]
    /\ last' = [Event("create", Len(ex) + 1, TRUE) EXCEPT !.p = p]
    /\ UNCHANGED <<lock, call>>
    /\ UNCHANGED <<cam, an>>

\* PipelineManager.create_pipeline
create_pipeline(p, cfg) ==
    /\ lock = FALSE
    /\ IF p \in DOMAIN pipelines
       THEN /\ last' = [Event("create", pipelines[p], FALSE) EXCEPT !.p = p]
            /\ UNCHANGED <<ex, pipelines>>
       ELSE /\ Len(ex) < MgrExecutors
            /\ ex' = Append(ex, PipelineExecutor(cfg))
            /\ pipelines' = (p :> Len(ex) + 1) @@ pipelines
            /\ last' = [Event("create", Len(ex) + 1, TRUE) EXCEPT !.p = p]
    /\ UNCHANGED <<lock, call>>
    /\ UNCHANGED <<cam, an>>

\* PipelineManager.start_pipeline
start_pipeline(p, maxThreads, maxInits) ==
    /\ lock = FALSE
    /\ IF p \notin DOMAIN pipelines THEN NotFound("start", p)
       ELSE Start(pipelines[p], maxThreads, maxInits)

\* PipelineManager.stop_pipeline, up to the joins of pipeline.stop()
stop_pipeline(p) ==
    /\ lock = FALSE
    /\ IF p \notin DOMAIN pipelines THEN NotFound("stop", p)
       ELSE stop_call(pipelines[p], [Direct EXCEPT !.mgr = "stop", !.p = p])

\* PipelineManager.pause_pipeline
pause_pipeline(p) ==
    /\ lock = FALSE
    /\ IF p \notin DOMAIN pipelines THEN NotFound("pause", p)
       ELSE Pause(pipelines[p])

\* PipelineManager.resume_pipeline
resume_pipeline(p) ==
    /\ lock = FALSE
    /\ IF p \notin DOMAIN pipelines THEN NotFound("resume", p)
       ELSE Resume(pipelines[p])

\* PipelineManager.get_pipeline_status
get_pipeline_status(p) ==
    /\ lock = FALSE
    /\ IF p \notin DOMAIN pipelines THEN NotFound("get_status", p)
       ELSE /\ last' = [Event("get_status", pipelines[p], TRUE) EXCEPT !.p = p]
            /\ UNCHANGED <<ex, pipelines, lock, call>>
    /\ UNCHANGED <<cam, an>>

\* PipelineManager.delete_pipeline, up to the first join of pipeline.cleanup()
delete_pipeline(p) ==
    /\ lock = FALSE
    /\ IF p \notin DOMAIN pipelines THEN NotFound("delete", p)
       ELSE cleanup_call(pipelines[p], [Direct EXCEPT !.mgr = "delete", !.p = p])

\* PipelineManager.delete_pipeline from the return of pipeline.cleanup() on
delete_return(e) ==
    /\ call.op = "cleanup" /\ call.e = e /\ call.by.mgr = "delete"
    /\ cleanup_joined(ex[e])
    /\ \E fails \in SUBSET NodeIds(ex[e]) :
          LET r == cleanup_nodes(ex[e], fails) IN
          /\ ex' = [ex EXCEPT ![e] = r.e]
          /\ last' = [Event("delete_return", e, TRUE) EXCEPT
                         !.p = call.by.p, !.invoked = r.invoked, !.failed = fails]
    /\ pipelines' = [q \in DOMAIN pipelines \ {call.by.p} |-> pipelines[q]]
    /\ call' = Idle
    /\ lock' = FALSE
    /\ UNCHANGED <<cam, an>>

\* PipelineManager.update_pipeline_config, up to the first join of
\* pipeline.stop() or pipeline.cleanup(): a running pipeline is stopped by the
\* stop() call, any other that is not stopped by the stop() inside cleanup()
update_pipeline_config(p, cfg) ==
    /\ lock = FALSE
    /\ IF p \notin DOMAIN pipelines THEN NotFound("update", p)
       ELSE /\ Len(ex) < MgrExecutors
            /\ cleanup_call(pipelines[p],
                            [mgr |-> "update", p |-> p, cfg |-> cfg,
                             restart |-> ex[pipelines[p]].status = "running"])

\* PipelineManager.update_pipeline_config from the return of
\* pipeline.cleanup() on: the new executor is registered, and started if the
\* old one was running
update_return(e) ==
    /\ call.op = "cleanup" /\ call.e = e /\ call.by.mgr = "update"
    /\ cleanup_joined(ex[e])
    /\ \E fails \in SUBSET NodeIds(ex[e]) :
          LET new_pipeline == PipelineExecutor(call.by.cfg)
              started == IF call.by.restart THEN start(new_pipeline, 0).e ELSE new_pipeline
              r == cleanup_nodes(ex[e], fails)
          IN  /\ ex' = Append([ex EXCEPT ![e] = r.e], started)
              /\ last' = [Event("update_return", Len(ex) + 1, TRUE) EXCEPT
                             !.p = call.by.p, !.invoked = r.invoked, !.failed = fails,
                             !.notified = IF call.by.restart THEN <<"running">> ELSE <<>>]
    /\ pipelines' = [pipelines EXCEPT ![call.by.p] = Len(ex) + 1]
    /\ call' = Idle
    /\ lock' = FALSE
    /\ UNCHANGED <<cam, an>>

InitMgr ==
    /\ ex = <<>>
    /\ pipelines = <<>>
    /\ lock = FALSE
    /\ call = Idle
    /\ last = Event("init", 0, TRUE)
    /\ cam = NoNode
    /\ an = NoNode

SpecMgr ==
    InitMgr /\ [][\/ \E p \in PipelineIds : \E cfg \in MgrConfigs : create_pipeline(p, cfg)
                  \/ \E p \in PipelineIds : start_pipeline(p, MgrThreads, MgrInits)
                  \/ \E p \in PipelineIds : stop_pipeline(p)
                  \/ \E p \in PipelineIds : pause_pipeline(p)
                  \/ \E p \in PipelineIds : resume_pipeline(p)
                  \/ \E p \in PipelineIds : get_pipeline_status(p)
                  \/ \E p \in PipelineIds : delete_pipeline(p)
                  \/ \E p \in PipelineIds : \E cfg \in MgrConfigs : update_pipeline_config(p, cfg)
                  \/ \E e \in DOMAIN ex : StopReturn(e)
                  \/ \E e \in DOMAIN ex : CleanupStopped(e)
                  \/ \E e \in DOMAIN ex : delete_return(e)
                  \/ \E e \in DOMAIN ex : update_return(e)
                  \/ \E e \in DOMAIN ex : Threads(e, MgrFrames)]_vars

\* the manager after create_pipeline("A", cfg), operated on that one pipeline
\* by start, stop, pause and resume
InitPipeline ==
    /\ \E cfg \in MgrConfigs : ex = <<PipelineExecutor(cfg)>>
    /\ pipelines = ("A" :> 1)
    /\ lock = FALSE
    /\ call = Idle
    /\ last = [Event("create", 1, TRUE) EXCEPT !.p = "A"]
    /\ cam = NoNode
    /\ an = NoNode

SpecPipeline ==
    InitPipeline /\ [][\/ start_pipeline("A", OneThreads, OneInits)
                       \/ stop_pipeline("A")
                       \/ pause_pipeline("A")
                       \/ resume_pipeline("A")
                       \/ StopReturn(1)
                       \/ Threads(1, OneFrames)]_vars

\* the pipeline of SpecPipeline, and the operations of the manager called with
\* the id "B", which is not registered
SpecUnknown ==
    InitPipeline /\ [][\/ start_pipeline("A", OneThreads, OneInits)
                       \/ pause_pipeline("A")
                       \/ resume_pipeline("A")
                       \/ \E t \in DOMAIN ex[1].loops : LoopCheck(1, t, OneFrames) \/ LoopTick(1, t)
                       \/ start_pipeline("B", OneThreads, OneInits)
                       \/ stop_pipeline("B")
                       \/ pause_pipeline("B")
                       \/ resume_pipeline("B")
                       \/ get_pipeline_status("B")
                       \/ delete_pipeline("B")
                       \/ \E cfg \in MgrConfigs : update_pipeline_config("B", cfg)]_vars

\* bounds of SpecDelete: loop threads spawned, iterations and initialize()
\* calls of one executor
DelThreads == 2
DelFrames == 1
DelInits == 1

\* the manager after create_pipeline("A", cfg), cfg being the chain of three
\* nodes with fps 30 or with fps 0, operated on that one id by every
\* operation but update_pipeline_config.  The executor created first is
\* started, stopped, paused and resumed, and its threads are followed, as long
\* as it is registered; an executor created after a delete is queried and
\* deleted only
InitDelete ==
    /\ \E cfg \in {CfgChain, [CfgChain EXCEPT !.fps = 0]} : ex = <<PipelineExecutor(cfg)>>
    /\ pipelines = ("A" :> 1)
    /\ lock = FALSE
    /\ call = Idle
    /\ last = [Event("create", 1, TRUE) EXCEPT !.p = "A"]
    /\ cam = NoNode
    /\ an = NoNode

NextDelete ==
    \/ \E cfg \in {CfgChain, [CfgChain EXCEPT !.fps = 0]} : create_pipeline("A", cfg)
    \/ pipelines = ("A" :> 1) /\ start_pipeline("A", DelThreads, DelInits)
    \/ pipelines = ("A" :> 1) /\ stop_pipeline("A")
    \/ pipelines = ("A" :> 1) /\ pause_pipeline("A")
    \/ pipelines = ("A" :> 1) /\ resume_pipeline("A")
    \/ get_pipeline_status("A")
    \/ delete_pipeline("A")
    \/ \E e \in DOMAIN ex : StopReturn(e)
    \/ \E e \in DOMAIN ex : CleanupStopped(e)
    \/ \E e \in DOMAIN ex : delete_return(e)
    \/ pipelines = ("A" :> 1) /\ Threads(1, DelFrames)

SpecDelete == InitDelete /\ [][NextDelete]_vars

\* PipelineManager.start_pipeline with a global status callback that calls
\* manager.get_pipeline_status(p): start_pipeline holds self.lock, a
\* threading.Lock, around pipeline.start(); the first _notify_status_change
\* of start() ("starting" at the top of initialize(), else "running" after the
\* loop thread is started) reaches the subscriber through
\* _on_pipeline_status_change on the same thread, and the subscriber's query
\* asks for self.lock
on_pipeline_status_change(p) ==
    /\ lock = FALSE
    /\ call = Idle
    /\ p \in DOMAIN pipelines
    /\ LET e == pipelines[p] IN
       /\ ex[e].status # "running"
       /\ Len(ex[e].loops) < DelThreads
       /\ NeedsInitialize(ex[e]) => ex[e].inits < DelInits
       /\ ex' = [ex EXCEPT ![e] = IF NeedsInitialize(ex[e])
                                  THEN [ex[e] EXCEPT !.status = "starting", !.inits = @ + 1]
                                  ELSE start_threads(ex[e])]
       /\ last' = [Event("start", e, TRUE) EXCEPT
                      !.p = p,
                      !.notified = IF NeedsInitialize(ex[e]) THEN <<"starting">>
                                   ELSE <<"running">>]
       /\ call' = Blocked("get_pipeline_status", e, "acquire",
                          [Direct EXCEPT !.mgr = "start", !.p = p])
    /\ lock' = TRUE
    /\ UNCHANGED pipelines
    /\ UNCHANGED <<cam, an>>

\* the manager of SpecDelete with a subscriber whose status callback may
\* query the manager
SpecSubscriber == InitDelete /\ [][NextDelete \/ on_pipeline_status_change("A")]_vars

\* `self.stats.total_frames_processed += 1` is a load and a store with no lock
\* around them: a loop thread takes the two steps of its iteration apart, other
\* threads running in between.  The load: the thread keeps the value it read
TickLoad(e, t) ==
    /\ ex[e].loops[t].pc = "tick"
    /\ ex' = [ex EXCEPT ![e].loops[t] =
                 [pc |-> "store", cancelled |-> @.cancelled,
                  loaded |-> ex[e].total_frames_processed]]
    /\ last' = Event("step", e, TRUE)
    /\ UNCHANGED <<pipelines, lock, call, cam, an>>

\* the store: the iteration with the counter set to the value loaded plus one
TickStore(e, t) ==
    /\ ex[e].loops[t].pc = "store"
    /\ \E fails \in SUBSET ProcessNodes(ex[e]) :
          LET th == ex[e].loops[t]
              r == loop_iteration([ex[e] EXCEPT !.loops[t] =
                                      [pc |-> "tick", cancelled |-> th.cancelled]],
                                  t, fails)
          IN  /\ ex' = [ex EXCEPT ![e] =
                           [r.e EXCEPT !.total_frames_processed = th.loaded + 1]]
              /\ last' = [Event("tick", e, ~LoopCrashes(ex[e])) EXCEPT
                             !.inputs = r.inputs, !.outputs = r.outputs,
                             !.invoked = r.invoked, !.failed = r.failed]
    /\ UNCHANGED <<pipelines, lock, call, cam, an>>

\* the pipeline of SpecPipeline with the counter's increment taken apart, and
\* status queries
SpecCount ==
    InitPipeline /\ [][\/ start_pipeline("A", OneThreads, OneInits)
                       \/ stop_pipeline("A")
                       \/ pause_pipeline("A")
                       \/ resume_pipeline("A")
                       \/ get_pipeline_status("A")
                       \/ StopReturn(1)
                       \/ \E t \in DOMAIN ex[1].loops : LoopCheck(1, t, OneFrames)
                       \/ \E t \in DOMAIN ex[1].loops : TickLoad(1, t)
                       \/ \E t \in DOMAIN ex[1].loops : TickStore(1, t)]_vars

\* One loop iteration taken apart at its callbacks, which run on the loop
\* thread with no lock held.  The executor keeps, next to its fields, the
\* number of iterations begun and the callbacks delivered, in order.
\* _process_frame up to the call of _process_node_chain: the Input nodes are
\* polled and the processing order is computed
TickBegin(e, t) ==
    /\ ex[e].loops[t].pc = "tick"
    /\ LET r == process_frame(ex[e], {})
           inputs == PolledInputs(ex[e])
           order == IF inputs = {} THEN <<>> ELSE get_processing_order(r.e)
       IN  ex' = [ex EXCEPT ![e] =
                     [f \in DOMAIN ex[e] |->
                         CASE f = "nodes" -> r.e.nodes
                           [] f = "begun" -> ex[e].begun + 1
                           [] f = "loops" ->
                                 [ex[e].loops EXCEPT ![t] =
                                     [pc |-> "chain", cancelled |-> @.cancelled,
                                      tick |-> ex[e].begun + 1, order |-> order,
                                      acc |-> [outputs |-> inputs, invoked |-> {},
                                               failed |-> {}]]]
                           [] OTHER -> ex[e][f]]]
    /\ last' = Event("step", e, TRUE)
    /\ UNCHANGED <<pipelines, lock, call, cam, an>>

\* one pass of the loop of _process_node_chain: the next node of the order
\* runs, and analytics_callback is called when its process() succeeded
TickNode(e, t) ==
    LET th == ex[e].loops[t] IN
    /\ th.pc = "chain"
    /\ th.order # <<>>
    /\ \E fails \in SUBSET ({Head(th.order)} \cap ProcessNodes(ex[e])) :
          LET acc == chain_step(ex[e], th.acc, Head(th.order), fails)
              delivered == IF Head(th.order) \in acc.outputs \ th.acc.outputs
                           THEN <<[tick |-> th.tick, callback |-> "analytics",
                                   node_id |-> Head(th.order)]>>
                           ELSE <<>>
          IN  ex' = [ex EXCEPT ![e].loops[t].order = Tail(@),
                               ![e].loops[t].acc = acc,
                               ![e].errors_count = count_errors(@, acc.failed \ th.acc.failed),
                               ![e].callbacks = @ \o delivered]
    /\ last' = Event("step", e, TRUE)
    /\ UNCHANGED <<pipelines, lock, call, cam, an>>

\* the rest of the iteration: frame_callback when the chain returned data,
\* the frame counter, and the pacing computation, which raises when fps is 0
TickEnd(e, t) ==
    LET th == ex[e].loops[t]
        delivered == IF th.acc.outputs # {}
                     THEN <<[tick |-> th.tick, callback |-> "frame", node_id |-> "none"]>>
                     ELSE <<>>
        counted == [ex[e] EXCEPT !.callbacks = @ \o delivered,
                                 !.total_frames_processed = count_frame(ex[e], th.acc.outputs)]
    IN
    /\ th.pc = "chain"
    /\ th.order = <<>>
    /\ ex' = [ex EXCEPT ![e] =
                 IF LoopCrashes(ex[e])
                 THEN [counted EXCEPT !.error_message = "execution_loop_error",
                                      !.status = "error",
                                      !.errors_count = @ + 1,
                                      !.loops[t] = [pc |-> "dead", cancelled |-> FALSE]]
                 ELSE [counted EXCEPT !.loops[t] =
                                         [pc |-> "check", cancelled |-> th.cancelled]]]
    /\ last' = [Event("tick", e, ~LoopCrashes(ex[e])) EXCEPT
                   !.inputs = {}, !.outputs = th.acc.outputs,
                   !.invoked = th.acc.invoked, !.failed = th.acc.failed]
    /\ UNCHANGED <<pipelines, lock, call, cam, an>>

\* one executor after construction, no callback delivered yet
InitCalls ==
    /\ \E cfg \in MgrConfigs :
          ex = <<PipelineExecutor(cfg) @@ [begun |-> 0, callbacks |-> <<>>]>>
    /\ pipelines = <<>>
    /\ lock = FALSE
    /\ call = Idle
    /\ last = Event("init", 1, TRUE)
    /\ cam = NoNode
    /\ an = NoNode

\* the executor operated by initialize, start, stop, pause and resume, with
\* the iteration taken apart
SpecCalls ==
    InitCalls /\ [][\/ Initialize(1, MaxInits)
                    \/ Start(1, MaxThreads, MaxInits)
                    \/ stop_call(1, Direct)
                    \/ StopReturn(1)
                    \/ Pause(1)
                    \/ Resume(1)
                    \/ \E t \in DOMAIN ex[1].loops : LoopCheck(1, t, TickFrames)
                    \/ \E t \in DOMAIN ex[1].loops : TickBegin(1, t)
                    \/ \E t \in DOMAIN ex[1].loops : TickNode(1, t)
                    \/ \E t \in DOMAIN ex[1].loops : TickEnd(1, t)
                    \/ \E i \in DOMAIN ex[1].nodes :
                          \E k \in DOMAIN ex[1].nodes[i].capture : CaptureStep(1, i, k)]_vars

----------------------------------------------------------------------------
(* CameraInputNode driven on its own: its frame queue holds the frames
   themselves, and its capture thread is followed through the loop test, the
   read and the reconnect attempts.  A frame is [frame_id, seq]: frame_id is
   the FrameData field, seq the order in which the frame was captured *)

\* bounds: frames captured, capture threads spawned, reconnect attempts one
\* thread is followed through
CamFrames == 3
CamThreads == 2
CamAttempts == 3

\* CameraInputNode.__init__; up: the video source can be opened and read
CameraInputNode(buffer_size, reconnect_attempts, up) ==
    [cls |-> "CameraInputNode", buffer_size |-> buffer_size,
     reconnect_attempts |-> reconnect_attempts,
     is_initialized |-> FALSE, is_running |-> FALSE, error_message |-> "none",
     cap |-> "none", stop_event |-> FALSE,
     frame_queue |-> <<>>, frame_counter |-> 0,
     threads |-> <<>>, up |-> up,
     captured |-> 0, polled |-> FALSE, handed_max |-> -1]

\* CameraInputNode.initialize
camera_initialize(node) ==
    IF node.up
    THEN [node EXCEPT !.cap = "open", !.is_initialized = TRUE]
    ELSE [node EXCEPT !.cap = "closed", !.error_message = "cannot_open_source"]

\* CameraInputNode.start_stream
camera_start_stream(node) ==
    IF ~node.is_initialized THEN node
    ELSE [node EXCEPT !.stop_event = FALSE,
                      !.threads = Append(@, [pc |-> "test", i |-> 0, attempts |-> 0,
                                             cancelled |-> FALSE, late |-> FALSE]),
                      !.is_running = TRUE]

\* CameraInputNode.stop_stream up to its join; cancelled marks the threads
\* that were alive when the flag was set
camera_stop_signal(node) ==
    [node EXCEPT !.stop_event = TRUE,
                 !.threads = [k \in DOMAIN node.threads |->
                                 IF node.threads[k].pc # "dead"
                                 THEN [node.threads[k] EXCEPT !.cancelled = TRUE]
                                 ELSE node.threads[k]]]

\* capture_thread.join(timeout=2.0) has returned: the thread has exited, or it
\* is inside a read or a reconnect attempt and the timeout has passed
camera_stop_joined(node) ==
    IF DOMAIN node.threads = {} THEN TRUE
    ELSE node.threads[Len(node.threads)].pc # "test"

\* Queue.full(): a Queue of maxsize <= 0 is never full
QueueFull(q, maxsize) == maxsize > 0 /\ Len(q) >= maxsize

\* the put of _capture_frames: put_nowait and count the frame, or, the queue
\* being full, take the oldest frame out and put the new one
camera_put(node) ==
    LET frame == [frame_id |-> node.frame_counter, seq |-> node.captured] IN
    IF ~QueueFull(node.frame_queue, node.buffer_size)
    THEN [node EXCEPT !.frame_queue = Append(@, frame),
                      !.frame_counter = @ + 1,
                      !.captured = @ + 1]
    ELSE [node EXCEPT !.frame_queue = Append(Tail(@), frame),
                      !.captured = @ + 1]

\* the while test of _capture_frames by thread k
camera_loop_test(node, k) ==
    IF node.stop_event
    THEN [node EXCEPT !.threads[k].pc = "dead"]
    ELSE [node EXCEPT !.threads[k].pc = "read",
                      !.threads[k].late = @ \/ node.threads[k].cancelled]

\* cap.read() succeeds
ReadSucceeds(node) == node.up /\ node.cap = "open"

\* the body of the while loop of _capture_frames by thread k, from the read
\* to the next loop test, the reconnect apart
camera_read(node, k) ==
    IF ReadSucceeds(node)
    THEN [camera_put(node) EXCEPT !.threads[k].pc = "test"]
    ELSE IF node.reconnect_attempts > 0
         THEN [node EXCEPT !.threads[k].pc = "reconnect", !.threads[k].i = 0,
                           !.threads[k].late = @ \/ node.threads[k].cancelled]
         ELSE [node EXCEPT !.threads[k].pc = "dead"]

\* one iteration of the for loop of _attempt_reconnect by thread k; its return
\* value is dropped by _capture_frames, which continues with the loop test.
\* attempts counts the attempts that failed in a row
camera_reconnect(node, k) ==
    LET th == node.threads[k] IN
    IF node.up
    THEN [node EXCEPT !.cap = "open", !.threads[k].pc = "test", !.threads[k].i = 0,
                      !.threads[k].attempts = 0]
    ELSE IF th.i + 1 < node.reconnect_attempts
         THEN [node EXCEPT !.cap = "closed", !.threads[k].i = @ + 1,
                           !.threads[k].attempts = @ + 1,
                           !.threads[k].late = @ \/ th.cancelled]
         ELSE [node EXCEPT !.cap = "closed", !.threads[k].pc = "test",
                           !.threads[k].i = 0, !.threads[k].attempts = @ + 1]

\* CameraInputNode.get_next_frame: [node, frame]; frame holds the frame
\* returned and is empty on Empty, when None is returned
camera_get_next_frame(node) ==
    IF DOMAIN node.frame_queue = {}
    THEN [node |-> [node EXCEPT !.polled = TRUE], frame |-> None]
    ELSE [node |-> [node EXCEPT !.frame_queue = Tail(@), !.polled = TRUE,
                                !.handed_max = IF node.frame_queue[1].frame_id > @
                                               THEN node.frame_queue[1].frame_id ELSE @],
          frame |-> {node.frame_queue[1]}]

CamInitialize ==
    /\ call = Idle
    /\ ~cam.is_initialized
    /\ cam' = camera_initialize(cam)
    /\ last' = Event("initialize", 0, cam.up)
    /\ UNCHANGED call
    /\ UNCHANGED <<ex, pipelines, lock, an>>

CamStartStream ==
    /\ call = Idle
    /\ Len(cam.threads) < CamThreads
    /\ cam' = camera_start_stream(cam)
    /\ last' = Event("start_stream", 0, TRUE)
    /\ UNCHANGED call
    /\ UNCHANGED <<ex, pipelines, lock, an>>

\* stop_stream up to its join
CamStopStream ==
    /\ call = Idle
    /\ cam' = camera_stop_signal(cam)
    /\ call' = Blocked("stop_stream", 0, "return", Direct)
    /\ last' = Event("stop_stream", 0, TRUE)
    /\ UNCHANGED <<ex, pipelines, lock, an>>

\* stop_stream after its join
CamStopStreamReturn ==
    /\ call = Blocked("stop_stream", 0, "return", Direct)
    /\ camera_stop_joined(cam)
    /\ cam' = [cam EXCEPT !.is_running = FALSE]
    /\ call' = Idle
    /\ last' = Event("stop_stream_return", 0, TRUE)
    /\ UNCHANGED <<ex, pipelines, lock, an>>

CamGetNextFrame ==
    /\ call = Idle
    /\ LET r == camera_get_next_frame(cam) IN
       /\ cam' = r.node
       /\ last' = [Event("get_next_frame", 0, r.frame # None) EXCEPT
                      !.outputs = r.frame]
    /\ UNCHANGED call
    /\ UNCHANGED <<ex, pipelines, lock, an>>

\* the video source goes down
SourceDown ==
    /\ cam.up
    /\ cam' = [cam EXCEPT !.up = FALSE]
    /\ last' = Event("source_down", 0, TRUE)
    /\ UNCHANGED call
    /\ UNCHANGED <<ex, pipelines, lock, an>>

\* the video source comes back
SourceUp ==
    /\ ~cam.up
    /\ cam' = [cam EXCEPT !.up = TRUE]
    /\ last' = Event("source_up", 0, TRUE)
    /\ UNCHANGED call
    /\ UNCHANGED <<ex, pipelines, lock, an>>

CamLoopTest(k) ==
    /\ cam.threads[k].pc = "test"
    /\ cam' = camera_loop_test(cam, k)
    /\ last' = Event("step", 0, TRUE)
    /\ UNCHANGED call
    /\ UNCHANGED <<ex, pipelines, lock, an>>

CamRead(k) ==
    /\ cam.threads[k].pc = "read"
    /\ ReadSucceeds(cam) => cam.captured < CamFrames
    /\ cam' = camera_read(cam, k)
    /\ last' = Event("read", 0, ReadSucceeds(cam))
    /\ UNCHANGED call
    /\ UNCHANGED <<ex, pipelines, lock, an>>

CamReconnect(k) ==
    /\ cam.threads[k].pc = "reconnect"
    /\ cam.threads[k].attempts < CamAttempts
    /\ cam' = camera_reconnect(cam, k)
    /\ last' = Event("reconnect", 0, cam.up)
    /\ UNCHANGED call
    /\ UNCHANGED <<ex, pipelines, lock, an>>

InitCam ==
    /\ ex = <<>>
    /\ pipelines = <<>>
    /\ lock = FALSE
    /\ call = Idle
    /\ last = Event("init", 0, TRUE)
    /\ \E n \in {0, 1, 2} : \E r \in {0, 2} : \E up \in BOOLEAN :
          cam = CameraInputNode(n, r, up)
    /\ an = NoNode

SpecCam ==
    InitCam /\ [][\/ CamInitialize
                  \/ CamStartStream
                  \/ CamStopStream
                  \/ CamStopStreamReturn
                  \/ CamGetNextFrame
                  \/ SourceDown
                  \/ SourceUp
                  \/ \E k \in DOMAIN cam.threads : CamLoopTest(k)
                  \/ \E k \in DOMAIN cam.threads : CamRead(k)
                  \/ \E k \in DOMAIN cam.threads : CamReconnect(k)]_vars

\* the offer of one frame by _capture_frames, thread k, followed through its
\* queue operations, each of which is atomic on its own: the read with the
\* first put_nowait ("read"); in the handler of its Full, get_nowait ("full"),
\* whose Empty is swallowed; then the second put_nowait ("retry"), whose Full
\* no handler catches, so that it ends the thread.  held[k] is the FrameData
\* the thread is offering
CamOffer(k) ==
    /\ cam.threads[k].pc \in {"read", "full", "retry"}
    /\ cam.threads[k].pc = "read" => cam.captured < CamFrames
    /\ LET pc == cam.threads[k].pc
           frame == IF pc = "read"
                    THEN [frame_id |-> cam.frame_counter, seq |-> cam.captured]
                    ELSE cam.held[k]
           full == QueueFull(cam.frame_queue, cam.buffer_size)
       IN  /\ cam' = CASE pc = "read" /\ ~full ->
                              [cam EXCEPT !.frame_queue = Append(@, frame),
                                          !.frame_counter = @ + 1,
                                          !.captured = @ + 1,
                                          !.held = (k :> frame) @@ @,
                                          !.threads[k].pc = "test"]
                       [] pc = "read" /\ full ->
                              [cam EXCEPT !.captured = @ + 1,
                                          !.held = (k :> frame) @@ @,
                                          !.threads[k].pc = "full"]
                       [] pc = "full" /\ cam.frame_queue = <<>> ->
                              [cam EXCEPT !.threads[k].pc = "test"]
                       [] pc = "full" /\ cam.frame_queue # <<>> ->
                              [cam EXCEPT !.frame_queue = Tail(@),
                                          !.threads[k].pc = "retry"]
                       [] pc = "retry" /\ ~full ->
                              [cam EXCEPT !.frame_queue = Append(@, frame),
                                          !.threads[k].pc = "test"]
                       [] pc = "retry" /\ full ->
                              [cam EXCEPT !.threads[k].pc = "dead"]
           /\ last' = [Event("offer", k, TRUE) EXCEPT !.inputs = {frame}]
    /\ UNCHANGED call
    /\ UNCHANGED <<ex, pipelines, lock, an>>

\* a camera node with a buffer of one or two frames on a source that can be
\* read
InitOffer ==
    /\ ex = <<>>
    /\ pipelines = <<>>
    /\ lock = FALSE
    /\ call = Idle
    /\ last = Event("init", 0, TRUE)
    /\ \E n \in {1, 2} : cam = CameraInputNode(n, 0, TRUE) @@ [held |-> <<>>]
    /\ an = NoNode

\* the capture threads of the node run beside the executor thread's
\* get_next_frame
SpecOffer ==
    InitOffer /\ [][\/ CamInitialize
                    \/ CamStartStream
                    \/ CamGetNextFrame
                    \/ \E k \in DOMAIN cam.threads : CamLoopTest(k)
                    \/ \E k \in DOMAIN cam.threads : CamOffer(k)]_vars

----------------------------------------------------------------------------
(* LineCrossingNode driven on its own: process() is fed, call after call, the
   detection of one object that moves along a row of a small grid, through a
   line segment perpendicular to the row *)

\* bound: the grid is 0..GridMax in both coordinates
GridMax == 4

\* the configured line: the column in the middle of the grid, in one of its
\* two orientations, with one of the three direction settings
LineConfigs ==
    {[id |-> "line_0", start |-> <<2, a>>, end |-> <<2, GridMax - a>>, direction |-> d] :
        a \in {0, GridMax}, d \in {"both", "forward", "backward"}}

\* LineCrossingNode.__init__ and initialize
LineCrossingNode(lines) ==
    [cls |-> "LineCrossingNode", lines |-> lines, is_initialized |-> TRUE,
     tracking_data |-> <<>>, crossing_events |-> <<>>]

\* a Detection of class class_name whose bbox is the square around (cx, cy)
Detection(class_name, cx, cy) ==
    [class_name |-> class_name, bbox |-> <<cx - 1, cy - 1, cx + 1, cy + 1>>]

\* LineCrossingNode._get_object_id: the class name and the four bbox
\* coordinates, joined
get_object_id(detection) ==
    <<detection.class_name>> \o detection.bbox

\* LineCrossingNode._get_center_point
get_center_point(bbox) ==
    <<(bbox[1] + bbox[3]) \div 2, (bbox[2] + bbox[4]) \div 2>>

\* 0 <= n / d <= 1 for integers n and d # 0
UnitFraction(n, d) ==
    IF d > 0 THEN 0 <= n /\ n <= d ELSE d <= n /\ n <= 0

\* _line_intersection taking the direction from the side of the line on
\* which the movement starts
line_intersection_by_start(p1, p2, p3, p4) ==
    LET denom == (p1[1] - p2[1]) * (p3[2] - p4[2]) - (p1[2] - p2[2]) * (p3[1] - p4[1])
        tn == (p1[1] - p3[1]) * (p3[2] - p4[2]) - (p1[2] - p3[2]) * (p3[1] - p4[1])
        un == 0 - ((p1[1] - p2[1]) * (p1[2] - p3[2]) - (p1[2] - p2[2]) * (p1[1] - p3[1]))
    IN  IF denom = 0 THEN [crossed |-> FALSE, direction |-> "none"]
        ELSE IF UnitFraction(tn, denom) /\ UnitFraction(un, denom)
             THEN [crossed |-> TRUE,
                   direction |-> IF tn > 0 THEN "forward" ELSE "backward"]
             ELSE [crossed |-> FALSE, direction |-> "none"]

\* LineCrossingNode._line_intersection: [crossed, direction]
line_intersection(p1, p2, p3, p4) ==
    LET denom == (p1[1] - p2[1]) * (p3[2] - p4[2]) - (p1[2] - p2[2]) * (p3[1] - p4[1])
        tn == (p1[1] - p3[1]) * (p3[2] - p4[2]) - (p1[2] - p3[2]) * (p3[1] - p4[1])
        un == 0 - ((p1[1] - p2[1]) * (p1[2] - p3[2]) - (p1[2] - p2[2]) * (p1[1] - p3[1]))
        cross_product == (p2[1] - p1[1]) * (p4[2] - p3[2]) - (p2[2] - p1[2]) * (p4[1] - p3[1])
    IN  IF denom = 0 THEN [crossed |-> FALSE, direction |-> "none"]
        ELSE IF UnitFraction(tn, denom) /\ UnitFraction(un, denom)
             THEN [crossed |-> TRUE,
                   direction |-> IF cross_product > 0 THEN "forward" ELSE "backward"]
             ELSE [crossed |-> FALSE, direction |-> "none"]

\* tracking_data with object_id bound to previous_pos
Track(tracking_data, object_id, pos) ==
    [o \in DOMAIN tracking_data \cup {object_id} |->
        IF o = object_id THEN pos ELSE tracking_data[o]]

\* LineCrossingNode._check_line_crossing: [node, crossing], crossing holding
\* the event returned, empty when None is returned
check_line_crossing(node, object_id, current_pos, line) ==
    IF object_id \notin DOMAIN node.tracking_data
    THEN [node |-> [node EXCEPT !.tracking_data = Track(@, object_id, current_pos)],
          crossing |-> {}]
    ELSE LET prev_pos == node.tracking_data[object_id]
             r == line_intersection(prev_pos, current_pos, line.start, line.end)
             moved == [node EXCEPT !.tracking_data = Track(@, object_id, current_pos)]
         IN  IF r.crossed /\ (line.direction = "both" \/ line.direction = r.direction)
             THEN [node |-> moved,
                   crossing |-> {[object_id |-> object_id, line_id |-> line.id,
                                  direction |-> r.direction, position |-> current_pos]}]
             ELSE [node |-> moved, crossing |-> {}]

\* the loop over self.lines for one detection, from line j on; st = [node, new]
RECURSIVE LinesLoop(_, _, _)
LinesLoop(st, detection, j) ==
    IF j > Len(st.node.lines) THEN st
    ELSE LET r == check_line_crossing(st.node, get_object_id(detection),
                                      get_center_point(detection.bbox), st.node.lines[j])
             ev == IF r.crossing = {} THEN <<>> ELSE <<CHOOSE c \in r.crossing : TRUE>>
         IN  LinesLoop([node |-> [r.node EXCEPT !.crossing_events = @ \o ev],
                        new |-> st.new \o ev],
                       detection, j + 1)

\* the loop over the detections, from detection i on
RECURSIVE DetectionsLoop(_, _, _)
DetectionsLoop(st, detections, i) ==
    IF i > Len(detections) THEN st
    ELSE DetectionsLoop(LinesLoop(st, detections[i], 1), detections, i + 1)

\* LineCrossingNode.process: [node, new], new being new_crossings
line_process(node, detections) ==
    DetectionsLoop([node |-> node, new |-> <<>>], detections, 1)

\* the object is seen for the first time, or one or two cells further on its row
LineProcess ==
    /\ an.cls = "LineCrossingNode"
    /\ \E x \in 0..GridMax :
          /\ IF an.obj.seen = 0 THEN x = an.obj.from
             ELSE (x - an.obj.x) * (IF an.obj.from = 0 THEN 1 ELSE 0 - 1) \in {1, 2}
          /\ LET r == line_process([f \in DOMAIN an \ {"obj"} |-> an[f]],
                                   <<Detection("person", x, an.obj.row)>>)
             IN  /\ an' = [f \in DOMAIN an |->
                              IF f = "obj" THEN [an.obj EXCEPT !.x = x, !.seen = 1]
                              ELSE r.node[f]]
                 /\ last' = [Event("process", 0, TRUE) EXCEPT
                                !.outputs = {r.new[c] : c \in DOMAIN r.new}]
    /\ UNCHANGED <<ex, pipelines, lock, call, cam>>

InitLine ==
    /\ ex = <<>>
    /\ pipelines = <<>>
    /\ lock = FALSE
    /\ call = Idle
    /\ last = Event("init", 0, TRUE)
    /\ cam = NoNode
    /\ \E line \in LineConfigs : \E row \in 1..(GridMax - 1) : \E from \in {0, GridMax} :
          an = [f \in {"cls", "lines", "is_initialized", "tracking_data",
                       "crossing_events", "obj"} |->
                   IF f = "obj" THEN [row |-> row, from |-> from, x |-> from, seen |-> 0]
                   ELSE LineCrossingNode(<<line>>)[f]]

SpecLine == InitLine /\ [][LineProcess]_vars

\* LineCrossingNode.process called with a frame in which nothing was detected:
\* the object has left the view
LineProcessEmpty ==
    /\ an.cls = "LineCrossingNode"
    /\ an.obj.seen # 0
    /\ LET r == line_process([f \in DOMAIN an \ {"obj"} |-> an[f]], <<>>)
       IN  /\ an' = [f \in DOMAIN an |->
                        IF f = "obj" THEN [an.obj EXCEPT !.seen = 2] ELSE r.node[f]]
           /\ last' = [Event("process", 0, TRUE) EXCEPT
                          !.outputs = {r.new[c] : c \in DOMAIN r.new}]
    /\ UNCHANGED <<ex, pipelines, lock, call, cam>>

\* the executor keeps calling process() tick after tick, so a frame without
\* the object is delivered whenever the node waits for one
SpecLineLive ==
    InitLine /\ [][LineProcess \/ LineProcessEmpty]_vars /\ WF_vars(LineProcessEmpty)

----------------------------------------------------------------------------
(* LineCrossingNode._check_line_crossing called on its own, call after call,
   for one object id and the centres the object moves through, against one
   line segment on the middle column of the grid *)

\* _check_line_crossing(object_id, current_pos, line, timestamp) for the
\* object "obj"; the node keeps, next to its fields, the last two movements
\* and what the calls returned for them
CheckLineCrossing ==
    /\ an.cls = "LineCrossingNode"
    /\ \E x \in 1..3 : \E y \in 0..GridMax :
          LET r == check_line_crossing([f \in DOMAIN an \ {"moves"} |-> an[f]],
                                       "obj", <<x, y>>, an.lines[1])
              move == IF "obj" \in DOMAIN an.tracking_data
                      THEN <<[from |-> an.tracking_data["obj"], to |-> <<x, y>>,
                              crossing |-> r.crossing]>>
                      ELSE <<>>
          IN  /\ an' = [f \in DOMAIN an |->
                           IF f = "moves"
                           THEN IF Len(an.moves) = 2 THEN Tail(an.moves) \o move
                                ELSE an.moves \o move
                           ELSE r.node[f]]
              /\ last' = [Event("check_line_crossing", 0, TRUE) EXCEPT
                             !.outputs = r.crossing]
    /\ UNCHANGED <<ex, pipelines, lock, call, cam>>

\* a node configured with one line from (2, 1) to (2, GridMax - 1) or back,
\* with one of the three direction settings
InitCross ==
    /\ ex = <<>>
    /\ pipelines = <<>>
    /\ lock = FALSE
    /\ call = Idle
    /\ last = Event("init", 0, TRUE)
    /\ cam = NoNode
    /\ \E a \in {1, GridMax - 1} : \E d \in {"both", "forward", "backward"} :
          an = [f \in {"cls", "lines", "is_initialized", "tracking_data",
                       "crossing_events", "moves"} |->
                   IF f = "moves" THEN <<>>
                   ELSE LineCrossingNode(<<[id |-> "line_0", start |-> <<2, a>>,
                                            end |-> <<2, GridMax - a>>,
                                            direction |-> d]>>)[f]]

SpecCross == InitCross /\ [][CheckLineCrossing]_vars

----------------------------------------------------------------------------
(* The loop of LineCrossingNode.process over self.lines for one detection,
   for a node configured with two lines, the columns 1 and 3 of the grid, in
   either order; the detections are those of one object "obj" *)

\* `for line in self.lines: crossing = self._check_line_crossing(object_id,
\* center, line, current_time)` for the object at <<x, y>>
CheckLines ==
    /\ an.cls = "LineCrossingNode"
    /\ \E x \in 0..GridMax : \E y \in 0..GridMax :
          LET loop[j \in 0..Len(an.lines)] ==
                  IF j = 0 THEN [node |-> an, new |-> {}]
                  ELSE LET r == check_line_crossing(loop[j - 1].node, "obj", <<x, y>>,
                                                    an.lines[j])
                       IN  [node |-> r.node, new |-> loop[j - 1].new \cup r.crossing]
              st == loop[Len(an.lines)]
          IN  /\ an' = st.node
              /\ last' = [Event("check_lines", 0, TRUE) EXCEPT
                             !.inputs = {<<x, y>>}, !.outputs = st.new]
    /\ UNCHANGED <<ex, pipelines, lock, call, cam>>

InitLines ==
    /\ ex = <<>>
    /\ pipelines = <<>>
    /\ lock = FALSE
    /\ call = Idle
    /\ last = Event("init", 0, TRUE)
    /\ cam = NoNode
    /\ \E c \in {1, 3} : \E d0, d1 \in {"both", "forward", "backward"} :
          an = LineCrossingNode(
                  <<[id |-> "line_0", start |-> <<c, 0>>, end |-> <<c, GridMax>>,
                     direction |-> d0],
                    [id |-> "line_1", start |-> <<4 - c, 0>>, end |-> <<4 - c, GridMax>>,
                     direction |-> d1]>>)

SpecLines == InitLines /\ [][CheckLines]_vars

----------------------------------------------------------------------------
(* AreaIntrusionNode driven on its own: process() is fed, call after call, a
   list of detections whose centres lie inside or outside the polygons of the
   configured zones *)

\* bound: the number of process() calls
ZoneCalls == 3

\* bound: the number of detections in one call
MaxDetections == 2

\* the zone lists configured: one zone around (2, 2) with or without an
\* allow-list and with a threshold of one or two objects, or that zone
\* followed by a triangular zone around (5, 2) of the same or of another id
ZoneConfigs ==
    LET Square == <<<<1, 1>>, <<3, 1>>, <<3, 3>>, <<1, 3>>>>
        Triangle == <<<<4, 0>>, <<8, 0>>, <<4, 8>>>>
        Zone(id, polygon, allowed, threshold, sensitivity) ==
            [id |-> id, polygon |-> polygon, allowed_classes |-> allowed,
             alert_threshold |-> threshold, sensitivity |-> sensitivity]
    IN  {<<Zone("zone_0", Square, a, t, "medium")>> : a \in {{}, {"car"}}, t \in {1, 2}}
        \cup {<<Zone("zone_0", Square, {"car"}, 1, "low"),
                Zone(id, Triangle, {"car"}, 1, "high")>> : id \in {"zone_0", "zone_1"}}

\* AreaIntrusionNode.__init__ and initialize, for a non-empty list of zones
AreaIntrusionNode(zones) ==
    [cls |-> "AreaIntrusionNode", zones |-> zones, is_initialized |-> TRUE,
     intrusion_events |-> <<>>, active_intrusions |-> {}]

\* AreaIntrusionNode._point_in_polygon: ray casting, `inside` being toggled
\* once for every edge (p1, p2) the tests let through; x <= xinters is
\* compared without the division
point_in_polygon(point, polygon) ==
    LET x == point[1]
        y == point[2]
        n == Len(polygon)
        Toggles(i) ==
            LET p1x == polygon[i][1]
                p1y == polygon[i][2]
                p2x == polygon[(i % n) + 1][1]
                p2y == polygon[(i % n) + 1][2]
            IN  /\ y > (IF p1y < p2y THEN p1y ELSE p2y)
                /\ y <= (IF p1y < p2y THEN p2y ELSE p1y)
                /\ x <= (IF p1x < p2x THEN p2x ELSE p1x)
                /\ \/ p1x = p2x
                   \/ IF p2y > p1y
                      THEN (x - p1x) * (p2y - p1y) <= (y - p1y) * (p2x - p1x)
                      ELSE (x - p1x) * (p2y - p1y) >= (y - p1y) * (p2x - p1x)
    IN  Cardinality({i \in 1..n : Toggles(i)}) % 2 = 1

\* AreaIntrusionNode._calculate_severity; the multipliers 1.5, 2.0 and 3.0
\* are doubled on both sides of the comparisons
calculate_severity(objects_count, zone) ==
    LET multiplier2 == IF zone.sensitivity = "high" THEN 3
                       ELSE IF zone.sensitivity = "low" THEN 6 ELSE 4
    IN  IF 2 * objects_count >= zone.alert_threshold * multiplier2 THEN "critical"
        ELSE IF 2 * objects_count >= zone.alert_threshold * 3 THEN "high"
        ELSE "medium"

\* the loop over self.zones in process(), from zone z on;
\* st = [node, new_intrusions, zone_status]
RECURSIVE ZonesLoop(_, _, _)
ZonesLoop(st, detections, z) ==
    IF z > Len(st.node.zones) THEN st
    ELSE LET zone == st.node.zones[z]
             Counted(detection) ==
                 /\ point_in_polygon(get_center_point(detection.bbox), zone.polygon)
                 /\ ~(zone.allowed_classes = {} \/ detection.class_name \in zone.allowed_classes)
             objects_in_zone == SelectSeq(detections, Counted)
             intrusion_count == Len(objects_in_zone)
             zone_id == zone.id
             status == [objects_count |-> intrusion_count,
                        is_violated |-> intrusion_count >= zone.alert_threshold]
             zone_status == [i \in DOMAIN st.zone_status \cup {zone_id} |->
                                IF i = zone_id THEN status ELSE st.zone_status[i]]
             intrusion_event ==
                 [zone_id |-> zone_id, objects_count |-> intrusion_count,
                  objects |-> [i \in DOMAIN objects_in_zone |-> objects_in_zone[i].class_name],
                  severity |-> calculate_severity(intrusion_count, zone)]
         IN  IF intrusion_count >= zone.alert_threshold
             THEN IF zone_id \notin st.node.active_intrusions
                  THEN ZonesLoop([node |-> [st.node EXCEPT
                                               !.intrusion_events = Append(@, intrusion_event),
                                               !.active_intrusions = @ \cup {zone_id}],
                                  new_intrusions |-> Append(st.new_intrusions, intrusion_event),
                                  zone_status |-> zone_status],
                                 detections, z + 1)
                  ELSE ZonesLoop([st EXCEPT !.zone_status = zone_status], detections, z + 1)
             ELSE ZonesLoop([st EXCEPT !.node.active_intrusions = @ \ {zone_id},
                                       !.zone_status = zone_status],
                            detections, z + 1)

\* AreaIntrusionNode.process on a list of Detection objects:
\* [node, new_intrusions, zone_status]
area_process(node, detections) ==
    ZonesLoop([node |-> node, new_intrusions |-> <<>>, zone_status |-> <<>>], detections, 1)

\* one process() call; the node keeps, next to its fields, the input and the
\* output of the call and the input of the call before it
AreaProcess ==
    /\ an.cls = "AreaIntrusionNode"
    /\ an.calls < ZoneCalls
    /\ \E n \in 0..MaxDetections :
       \E detections \in [1..n -> {Detection(c, p[1], p[2]) :
                                     c \in {"person", "car"},
                                     p \in {<<2, 2>>, <<5, 2>>, <<0, 6>>}}] :
          LET r == area_process([f \in DOMAIN AreaIntrusionNode(<<>>) |-> an[f]], detections)
          IN  /\ an' = [f \in DOMAIN an |->
                           CASE f = "calls" -> an.calls + 1
                             [] f = "detections" -> detections
                             [] f = "previous" -> IF an.calls = 0 THEN {} ELSE {an.detections}
                             [] f = "new_intrusions" -> r.new_intrusions
                             [] f = "zone_status" -> r.zone_status
                             [] OTHER -> r.node[f]]
              /\ last' = [Event("process", 0, TRUE) EXCEPT
                             !.outputs = {r.new_intrusions[i] : i \in DOMAIN r.new_intrusions}]
    /\ UNCHANGED <<ex, pipelines, lock, call, cam>>

InitZone ==
    /\ ex = <<>>
    /\ pipelines = <<>>
    /\ lock = FALSE
    /\ call = Idle
    /\ last = Event("init", 0, TRUE)
    /\ cam = NoNode
    /\ \E zones \in ZoneConfigs :
          an = [f \in DOMAIN AreaIntrusionNode(zones) \cup
                      {"calls", "detections", "previous", "new_intrusions", "zone_status"} |->
                   CASE f = "calls" -> 0
                     [] f = "previous" -> {}
                     [] f \in {"detections", "new_intrusions", "zone_status"} -> <<>>
                     [] OTHER -> AreaIntrusionNode(zones)[f]]

SpecZone == InitZone /\ [][AreaProcess]_vars

----------------------------------------------------------------------------
(* PeopleCountingNode driven on its own: process() is fed, call after call, a
   list of detections on one row of the grid, the clock standing still or
   advancing by one between two calls *)

\* bound: the number of process() calls
PeopleCalls == 3

\* PeopleCountingNode._update_tracking from detection i on, at time now.
\* person_tracker and current_people are dicts in insertion order: sequences
\* of [id, center, last_seen].  The result is [node, current_people]
RECURSIVE update_tracking(_, _, _, _, _)
update_tracking(node, detections, i, current_people, now) ==
    IF i > Len(detections)
    THEN [node |-> [node EXCEPT !.person_tracker =
                       SelectSeq(current_people,
                                 LAMBDA pdata : now - pdata.last_seen < node.person_timeout)],
          current_people |-> current_people]
    ELSE LET center == get_center_point(detections[i].bbox)
             Taken == {current_people[k].id : k \in DOMAIN current_people}
             Distance2(j) == (center[1] - node.person_tracker[j].center[1])
                                 * (center[1] - node.person_tracker[j].center[1])
                             + (center[2] - node.person_tracker[j].center[2])
                                 * (center[2] - node.person_tracker[j].center[2])
             Near == {j \in DOMAIN node.person_tracker :
                         /\ node.person_tracker[j].id \notin Taken
                         /\ Distance2(j) < node.max_tracking_distance
                                              * node.max_tracking_distance}
             best == CHOOSE j \in Near : \A k \in Near :
                         Distance2(j) < Distance2(k) \/ (Distance2(j) = Distance2(k) /\ j <= k)
         IN  IF Near # {}
             THEN update_tracking(node, detections, i + 1,
                      Append(current_people,
                             [id |-> node.person_tracker[best].id, center |-> center,
                              last_seen |-> now]),
                      now)
             ELSE update_tracking([node EXCEPT !.next_person_id = @ + 1], detections, i + 1,
                      Append(current_people,
                             [id |-> node.next_person_id, center |-> center,
                              last_seen |-> now]),
                      now)

\* PeopleCountingNode.process, called when allowed holds with up to
\* maxDetections detections out of seen; count_history holds the counts.  The node
\* keeps, next to its fields, the clock, the people returned by the call and,
\* for every track id ever returned, its latest sighting; the event holds, as
\* its input, the number of detections of the tracked classes in the frame
PeopleFrame(allowed, maxDetections, seen) ==
    /\ an.cls = "PeopleCountingNode"
    /\ allowed
    /\ \E dt \in {0, 1} : \E n \in 0..maxDetections : \E detections \in [1..n -> seen] :
          LET person_detections ==
                  SelectSeq(detections, LAMBDA d : d.class_name \in {"person", "people"})
              r == update_tracking([f \in DOMAIN an \ {"now", "current_people", "sightings"}
                                       |-> an[f]],
                                   person_detections, 1, <<>>, an.now + dt)
              ids == {r.current_people[k].id : k \in DOMAIN r.current_people}
          IN  /\ an' = [f \in DOMAIN an |->
                           CASE f = "now" -> an.now + dt
                             [] f = "current_people" -> r.current_people
                             [] f = "sightings" ->
                                   {t \in an.sightings : t.id \notin ids}
                                       \cup {r.current_people[k] : k \in DOMAIN r.current_people}
                             [] f = "count_history" ->
                                   Append(an.count_history, Len(r.current_people))
                             [] OTHER -> r.node[f]]
              /\ last' = [Event("process", 0, TRUE) EXCEPT
                             !.inputs = {Len(person_detections)}, !.outputs = ids]
    /\ UNCHANGED <<ex, pipelines, lock, call, cam>>

\* process() called with up to MaxDetections detections of persons and cars at
\* three places of the row, PeopleCalls times
PeopleProcess ==
    PeopleFrame(Len(an.count_history) < PeopleCalls, MaxDetections,
                {Detection(c, x, 0) : c \in {"person", "car"}, x \in {0, 1, GridMax}})

\* PeopleCountingNode.__init__ and initialize, with the configured
\* max_tracking_distance and person_timeout
InitPeople ==
    /\ ex = <<>>
    /\ pipelines = <<>>
    /\ lock = FALSE
    /\ call = Idle
    /\ last = Event("init", 0, TRUE)
    /\ cam = NoNode
    /\ \E timeout \in {2, 3} :
          an = [cls |-> "PeopleCountingNode", is_initialized |-> TRUE,
                person_tracker |-> <<>>, next_person_id |-> 1, count_history |-> <<>>,
                max_tracking_distance |-> 2, person_timeout |-> timeout,
                now |-> 0, current_people |-> <<>>, sightings |-> {}]

SpecPeople == InitPeople /\ [][PeopleProcess]_vars

\* bounds of SpecReuse: process() calls, and detections in one call
ReuseCalls == 2
ReuseDetections == 2

\* cleanup as it would be if it started the ids again
PeopleCleanupResetting ==
    /\ an.cls = "PeopleCountingNode"
    /\ an' = [an EXCEPT !.person_tracker = <<>>, !.count_history = <<>>,
                        !.next_person_id = 1,
                        !.cleared = @ + Len(an.count_history)]
    /\ last' = Event("cleanup", 0, TRUE)
    /\ UNCHANGED <<ex, pipelines, lock, call, cam>>

\* PeopleCountingNode.cleanup; cleared counts the process() calls whose
\* counts the cleanups have cleared
PeopleCleanup ==
    /\ an.cls = "PeopleCountingNode"
    /\ an' = [an EXCEPT !.person_tracker = <<>>, !.count_history = <<>>,
                        !.cleared = @ + Len(an.count_history)]
    /\ last' = Event("cleanup", 0, TRUE)
    /\ UNCHANGED <<ex, pipelines, lock, call, cam>>

\* the node of SpecPeople with a timeout of 2
InitReuse ==
    /\ ex = <<>>
    /\ pipelines = <<>>
    /\ lock = FALSE
    /\ call = Idle
    /\ last = Event("init", 0, TRUE)
    /\ cam = NoNode
    /\ an = [cls |-> "PeopleCountingNode", is_initialized |-> TRUE,
             person_tracker |-> <<>>, next_person_id |-> 1, count_history |-> <<>>,
             max_tracking_distance |-> 2, person_timeout |-> 2,
             now |-> 0, current_people |-> <<>>, sightings |-> {}, cleared |-> 0]

\* the node is fed ReuseCalls frames of persons at the two ends of the row and
\* of a car, cleanup() being called at any time in between
SpecReuse ==
    InitReuse /\ [][\/ PeopleFrame(an.cleared + Len(an.count_history) < ReuseCalls,
                                   ReuseDetections,
                                   {Detection("person", 0, 0), Detection("person", GridMax, 0),
                                    Detection("car", 0, 0)})
                   \/ PeopleCleanup]_vars

----------------------------------------------------------------------------
(* One node object of a class of the registry, driven on its own by
   initialize(), by use (start_stream() for an Input node, process() calls
   that fill the containers of an analytics node) and by cleanup().  attrs
   holds the attributes cleanup() reads or writes; an attribute removed by
   `del` is absent from it *)

\* __init__ of the eight classes of the registry
InitNode ==
    /\ ex = <<>>
    /\ pipelines = <<>>
    /\ lock = FALSE
    /\ call = Idle
    /\ last = Event("init", 0, TRUE)
    /\ cam = NoNode
    /\ \E cls \in {"CameraInputNode", "VideoFileInputNode", "YOLODetectionNode",
                   "FaceDetectionNode", "MotionDetectionNode", "PeopleCountingNode",
                   "LineCrossingNode", "AreaIntrusionNode"} :
          an = [cls |-> cls, is_initialized |-> FALSE, is_running |-> FALSE,
                attrs |->
                    CASE cls = "CameraInputNode" ->
                            [cap |-> "None", capture_thread |-> "None", stop_event |-> "clear"]
                      [] cls = "VideoFileInputNode" -> [cap |-> "None"]
                      [] cls = "YOLODetectionNode" -> [model |-> "None"]
                      [] cls = "FaceDetectionNode" ->
                            [face_cascade |-> "None", eye_cascade |-> "None"]
                      [] cls = "MotionDetectionNode" ->
                            [background_subtractor |-> "None", previous_frame |-> "None"]
                      [] cls = "PeopleCountingNode" ->
                            [person_tracker |-> "empty", count_history |-> "empty"]
                      [] cls = "LineCrossingNode" ->
                            [tracking_data |-> "empty", crossing_events |-> "empty"]
                      [] cls = "AreaIntrusionNode" ->
                            [intrusion_events |-> "empty", active_intrusions |-> "empty"]]

\* initialize() of the node's class.  It succeeds ("ok"), fails before it has
\* assigned anything ("early": a missing file path, no zone configured, an
\* exception in the constructor of the resource), or fails with the resource
\* assigned ("late": a capture that is not opened, a YOLO model whose warm-up
\* raises); detect_eyes is the setting of the face detector's configuration
NodeInitialize ==
    /\ "attrs" \in DOMAIN an
    /\ \E outcome \in {"ok", "early", "late"} : \E detect_eyes \in BOOLEAN :
          LET resource == CASE an.cls \in {"CameraInputNode", "VideoFileInputNode"} -> {"cap"}
                            [] an.cls = "YOLODetectionNode" -> {"model"}
                            [] an.cls = "FaceDetectionNode" ->
                                  IF detect_eyes THEN {"face_cascade", "eye_cascade"}
                                  ELSE {"face_cascade"}
                            [] an.cls = "MotionDetectionNode" -> {"background_subtractor"}
                            [] OTHER -> {}
              assigned == [a \in DOMAIN an.attrs \cup (IF outcome = "early" THEN {} ELSE resource)
                              |-> IF outcome # "early" /\ a \in resource THEN "held"
                                  ELSE an.attrs[a]]
          IN  /\ detect_eyes => an.cls = "FaceDetectionNode"
              /\ outcome = "late" => an.cls \in {"CameraInputNode", "VideoFileInputNode",
                                                  "YOLODetectionNode"}
              /\ an' = [an EXCEPT !.attrs = assigned,
                                  !.is_initialized = IF outcome = "ok" THEN TRUE ELSE @]
              /\ last' = Event("initialize", 0, outcome = "ok")
    /\ UNCHANGED <<ex, pipelines, lock, call, cam>>

\* the node at work: start_stream() or stop_stream() of an initialized Input
\* node; process() calls of an initialized node, which fill the containers
\* of an analytics node and the previous frame of the motion detector
NodeUse ==
    /\ "attrs" \in DOMAIN an
    /\ an.is_initialized
    /\ \E stop \in BOOLEAN :
          /\ stop => an.cls \in {"CameraInputNode", "VideoFileInputNode"}
          /\ an' = [an EXCEPT
                       !.is_running = IF an.cls \in {"CameraInputNode", "VideoFileInputNode"}
                                      THEN ~stop ELSE @,
                       !.attrs = [a \in DOMAIN an.attrs |->
                                     CASE a = "capture_thread" ->
                                             IF stop THEN an.attrs[a] ELSE "started"
                                       [] a = "stop_event" -> IF stop THEN "set" ELSE "clear"
                                       [] a = "previous_frame" -> "held"
                                       [] an.attrs[a] = "empty" -> "filled"
                                       [] OTHER -> an.attrs[a]]]
    /\ last' = Event("use", 0, TRUE)
    /\ UNCHANGED <<ex, pipelines, lock, call, cam>>

\* cleanup() of the node's class; ok is FALSE when it raises.  The Input
\* nodes call stop_stream() and release a capture that is not None; the YOLO
\* node runs `if self.model: del self.model`, and reading an attribute that
\* was deleted raises AttributeError; the other processing nodes assign None;
\* the analytics nodes clear their containers
NodeCleanup ==
    /\ "attrs" \in DOMAIN an
    /\ LET raises == an.cls = "YOLODetectionNode" /\ "model" \notin DOMAIN an.attrs
           kept == IF an.cls = "YOLODetectionNode" /\ ~raises /\ an.attrs.model # "None"
                   THEN DOMAIN an.attrs \ {"model"} ELSE DOMAIN an.attrs
       IN  /\ an' = [an EXCEPT
                        !.is_running = IF an.cls \in {"CameraInputNode", "VideoFileInputNode"}
                                       THEN FALSE ELSE @,
                        !.attrs = [a \in kept |->
                                      CASE a = "stop_event" -> "set"
                                        [] a = "cap" -> IF an.attrs[a] = "None" THEN "None"
                                                        ELSE "released"
                                        [] a \in {"face_cascade", "eye_cascade",
                                                  "background_subtractor",
                                                  "previous_frame"} -> "None"
                                        [] an.attrs[a] = "filled" -> "empty"
                                        [] OTHER -> an.attrs[a]]]
           /\ last' = Event("cleanup", 0, ~raises)
    /\ UNCHANGED <<ex, pipelines, lock, call, cam>>

SpecNode == InitNode /\ [][NodeInitialize \/ NodeUse \/ NodeCleanup]_vars

----------------------------------------------------------------------------
(* Claims about the executor *)

AliveLoops(e) == {t \in DOMAIN e.loops : Alive(e.loops[t].pc)}
AliveCaptures(node) == {k \in DOMAIN node.capture : Alive(node.capture[k])}

\* the step just taken is an iteration of the execution loop of executor e
TickOf(e) == last'.op = "tick" /\ last'.e = e

AllowedEdges ==
    {<<"stopped", "starting">>, <<"starting", "running">>, <<"running", "paused">>,
     <<"paused", "running">>, <<"running", "stopping">>, <<"paused", "stopping">>,
     <<"stopping", "stopped">>}

\* C1: every change of an executor's status follows Stopped->Starting,
\* Starting->Running, Running->Paused, Paused->Running, Running->Stopping,
\* Paused->Stopping, Stopping->Stopped, or leads to Error.
C1_StatusEdges ==
    [][\A e \in DOMAIN ex :
          ex'[e].status # ex[e].status =>
              \/ <<ex[e].status, ex'[e].status>> \in AllowedEdges
              \/ ex'[e].status = "error"]_vars

\* C2: when start() on an executor with a valid configuration returns
\* success, the status is Running and the node map holds one initialized node
\* per configured node id.
C2_StartInitializesNodes ==
    \A e \in DOMAIN ex :
        (last.op = "start" /\ last.e = e /\ last.ok /\ ValidConfig(ex[e].config)) =>
            /\ ex[e].status = "running"
            /\ NodeIds(ex[e]) = ConfigIds(ex[e].config)
            /\ \A i \in DOMAIN ex[e].nodes : ex[e].nodes[i].is_initialized

\* C3: an executor whose configuration is invalid is never Running, and every
\* start() on it returns failure and leaves status Error with an error message.
C3_InvalidNeverRuns ==
    \A e \in DOMAIN ex :
        ~ValidConfig(ex[e].config) =>
            /\ ex[e].status # "running"
            /\ (last.op = "start" /\ last.e = e) =>
                  /\ ~last.ok
                  /\ ex[e].status = "error"
                  /\ ex[e].error_message # "none"

\* C4: frames_processed counts frames: a loop iteration in which no Input node
\* produced a frame leaves it unchanged, one in which a frame was delivered
\* raises it by one.
C4_FramesCountFrames ==
    [][\A e \in DOMAIN ex :
          TickOf(e) =>
              ex'[e].total_frames_processed =
                  ex[e].total_frames_processed + (IF last'.inputs = {} THEN 0 ELSE 1)]_vars

\* node s comes before node n in the processing order
Before(e, s, n) ==
    LET order == get_processing_order(e) IN
    \E a, b \in DOMAIN order : a < b /\ order[a] = s /\ order[b] = n

\* node n has an edge from a source whose output is available when n's turn
\* comes in the tick ev: an Input node that delivered a frame, or an earlier
\* node that succeeded
UpstreamAvailable(e, n, ev) ==
    \E j \in DOMAIN e.connections :
        /\ e.connections[j].target_node_id = n
        /\ LET s == e.connections[j].source_node_id IN
           \/ s \in ev.inputs
           \/ s \in ev.invoked \ ev.failed /\ Before(e, s, n)

\* C5: a tick in which a node's process() fails still invokes every other node
\* that has an edge from a source with available output, merges every
\* successful result into the output map, and neither changes the status nor
\* ends the loop (a loop crash apart, which no node failure causes).
C5_NodeFailureIsolated ==
    [][\A e \in DOMAIN ex :
          (TickOf(e) /\ last'.failed # {}) =>
              /\ \A n \in ProcessNodes(ex[e]) :
                    UpstreamAvailable(ex'[e], n, last') => n \in last'.invoked
              /\ last'.invoked \ last'.failed \subseteq last'.outputs
              /\ last'.inputs \subseteq last'.outputs
              /\ last'.ok => ex'[e].status = ex[e].status
              /\ last'.ok => \A t \in AliveLoops(ex[e]) : Alive(ex'[e].loops[t].pc)]_vars

\* a tick in which one node failed and another, independent of it, succeeded
C5_Witness ==
    /\ last.op = "tick"
    /\ last.failed # {}
    /\ last.invoked \ last.failed # {}
    /\ ex[last.e].status = "running"

C18_ProcessingBeforeAnalytics ==
    [][\A e \in DOMAIN ex :
          TickOf(e) =>
              LET order == get_processing_order(ex[e])
                  Class(id) == ex[e].nodes[NodeIndex(ex[e], id)].cls
                  Processing == {"YOLODetectionNode", "FaceDetectionNode",
                                 "MotionDetectionNode"}
                  Analytics == {"PeopleCountingNode", "LineCrossingNode",
                                "AreaIntrusionNode"}
              IN  \A i, j \in DOMAIN order :
                      (Class(order[i]) \in Processing /\ Class(order[j]) \in Analytics)
                          => i < j]_vars

\* C19: stop_pipeline() on a pipeline whose executor is Stopped and
\* pause_pipeline() on one whose executor is not Running return success and
\* leave the executor (status, node map, statistics, cancellation and pause
\* flags, threads), the registry and the call in progress as they were, and
\* no status-changed callback is emitted.
C19_InapplicableAreNoOps ==
    [][\A p \in DOMAIN pipelines :
          LET e == pipelines[p] IN
          (/\ last'.e = e
           /\ \/ last'.op = "stop" /\ ex[e].status = "stopped"
              \/ last'.op = "pause" /\ ex[e].status # "running") =>
              /\ last'.ok
              /\ last'.notified = <<>>
              /\ ex' = ex
              /\ pipelines' = pipelines
              /\ call' = call /\ lock' = lock]_vars

\* a stop on a Stopped pipeline or a pause on a pipeline that is not Running
\* has just returned
C19_Witness ==
    /\ last.op \in {"stop", "pause"}
    /\ last.e \in DOMAIN ex
    /\ last.notified = <<>>
    /\ call = Idle
    /\ ex[last.e].status \in (IF last.op = "stop" THEN {"stopped"}
                              ELSE {"stopped", "paused", "error"})
    /\ ex[last.e].nodes # <<>>

\* C20: when start() calls a configured node's initialize() and it reports
\* failure, start() returns failure, the status is Error, the executor's
\* error message contains the node's error message, the node is not placed in
\* the node map (an object the map held under its id stays as it was), and no
\* execution loop and no capture loop is started.
C20_InitFailureAbortsStartup ==
    [][\A e \in DOMAIN ex :
          (last'.op = "start" /\ last'.e = e /\ last'.failed # {}) =>
              /\ ~last'.ok
              /\ ex'[e].status = "error"
              /\ \A id \in last'.failed :
                    LET msg == ex'[e].error_message
                        m == NodeError(id)
                    IN  /\ \E k \in 1..Len(msg) : SubSeq(msg, k, k + Len(m) - 1) = m
                        /\ IF id \in NodeIds(ex[e])
                           THEN /\ id \in NodeIds(ex'[e])
                                /\ ex'[e].nodes[NodeIndex(ex'[e], id)]
                                      = ex[e].nodes[NodeIndex(ex[e], id)]
                           ELSE id \notin NodeIds(ex'[e])
              /\ ex'[e].loops = ex[e].loops
              /\ \A i \in DOMAIN ex'[e].nodes :
                    \/ ex'[e].nodes[i].capture = <<>>
                    \/ /\ i \in DOMAIN ex[e].nodes
                       /\ ex'[e].nodes[i] = ex[e].nodes[i]]_vars

\* a start() has just returned failure from the initialize() of a node
C20_Witness ==
    /\ last.op = "start"
    /\ last.failed # {}
    /\ ~last.ok
    /\ ex[last.e].status = "error"

\* C21: for a pipeline that stays registered, the frames_processed value
\* get_status() returns is non-negative and no step (of start, stop, pause,
\* resume or of a loop thread) makes it smaller than it was.
C21_FramesNeverDecrease ==
    [][\A p \in DOMAIN pipelines \cap DOMAIN pipelines' :
          /\ ex'[pipelines'[p]].total_frames_processed >= 0
          /\ ex'[pipelines'[p]].total_frames_processed
                >= ex[pipelines[p]].total_frames_processed]_vars

\* C22: an executor in status Error has its error message recorded, and its
\* status leaves Error only in the step in which a caller invokes a lifecycle
\* operation (start, stop, pause, resume) on it.
C22_ErrorStaysUntilInvoked ==
    [][\A e \in DOMAIN ex :
          /\ ex'[e].status = "error" => ex'[e].error_message # "none"
          /\ (ex[e].status = "error" /\ ex'[e].status # "error") =>
                (last'.e = e /\ last'.op \in {"start", "stop", "pause", "resume"})]_vars

\* C23: a pause() or resume() step changes nothing of the executor but its
\* status and its pause flag (node map, nodes and their capture threads,
\* statistics, loop threads and cancellation flag stay as they were), and
\* while the pause flag is set no loop thread goes from its test into a tick.
C23_PauseOnlyGates ==
    [][\A e \in DOMAIN ex :
          /\ (last'.e = e /\ last'.op \in {"pause", "resume"}) =>
                \A f \in DOMAIN ex[e] \ {"status", "pause_event"} : ex'[e][f] = ex[e][f]
          /\ \A t \in DOMAIN ex[e].loops :
                (ex[e].pause_event /\ ex[e].loops[t].pc = "check") =>
                    ex'[e].loops[t].pc # "tick"]_vars

\* a resume() has just reopened the gate of an executor that has nodes, has
\* counted frames and has a loop thread, alive, to go on with
C23_Witness ==
    /\ last.op = "resume"
    /\ last.notified = <<"running">>
    /\ ex[last.e].nodes # <<>>
    /\ ex[last.e].total_frames_processed > 0
    /\ AliveLoops(ex[last.e]) # {}
    /\ ~ex[last.e].pause_event

\* C24: start, stop, pause, resume, delete, update_config and get_status of
\* the manager on an id that is not registered return failure (false, none
\* for get_status) and leave the registry, every executor, the lock and the
\* call in progress as they were.
C24_UnknownIdFailsByValue ==
    [][(/\ last'.op \in {"start", "stop", "pause", "resume", "delete", "update",
                         "get_status"}
        /\ last'.p \in PipelineIds \ DOMAIN pipelines) =>
          /\ ~last'.ok
          /\ UNCHANGED <<ex, pipelines, lock, call>>]_vars

\* an operation on the unregistered id has just returned failure, beside a
\* registered pipeline that is running
C24_Witness ==
    /\ last.op \in {"start", "stop", "pause", "resume", "delete", "update", "get_status"}
    /\ last.p \in PipelineIds \ DOMAIN pipelines
    /\ ~last.ok
    /\ \E p \in DOMAIN pipelines : ex[pipelines[p]].status = "running"

\* C28: the callbacks of a pipeline are delivered iteration by iteration:
\* between two callbacks of one iteration no callback of another iteration is
\* delivered, and the frame callback of an iteration is its last callback.
C28_CallbacksInTickOrder ==
    LET log == ex[1].callbacks IN
    \A i \in DOMAIN log : \A j \in DOMAIN log :
        (i < j /\ log[i].tick = log[j].tick) =>
            /\ log[i].callback = "analytics"
            /\ \A k \in i..j : log[k].tick = log[i].tick

\* C30: delete_pipeline on a registered id, whatever the status of its
\* executor, returns success with the executor's stop() done (its status
\* left Running, Paused and Stopping, and no loop thread that is alive can
\* begin another iteration), cleanup() called on every node of the node map,
\* the nodes whose cleanup() raises included, the node map empty and the id
\* out of the registry; from then on get_pipeline_status of the id returns
\* none and create_pipeline of the id succeeds and registers it.
C30_DeleteReleasesAndUnregisters ==
    [][/\ last'.op = "delete_return" =>
             /\ last'.ok
             /\ ex'[last'.e].status \notin {"running", "paused", "stopping"}
             /\ \A t \in DOMAIN ex'[last'.e].loops :
                   ex'[last'.e].loops[t].pc = "check" => ex'[last'.e].stop_event
             /\ last'.invoked = NodeIds(ex[last'.e])
             /\ last'.failed \subseteq last'.invoked
             /\ ex'[last'.e].nodes = <<>>
             /\ last'.p \in DOMAIN pipelines
             /\ last'.p \notin DOMAIN pipelines'
       /\ (last'.op = "get_status" /\ last'.p \notin DOMAIN pipelines) => ~last'.ok
       /\ (last'.op = "create" /\ last'.p \notin DOMAIN pipelines) =>
               /\ last'.ok
               /\ last'.p \in DOMAIN pipelines'
               /\ ex'[pipelines'[last'.p]].nodes = <<>>]_vars

\* C30, witness: delete_pipeline has returned for a pipeline whose node map
\* held the three nodes of the chain, the cleanup() of one or two of them
\* having raised
C30_Witness ==
    /\ last.op = "delete_return"
    /\ last.ok
    /\ Cardinality(last.invoked) = 3
    /\ last.failed # {}
    /\ last.failed # last.invoked
    /\ last.p \notin DOMAIN pipelines

\* C31: when update_pipeline_config returns, the executor it replaced has no
\* execution-loop thread still alive, and the executor now registered under
\* the id is built from the new configuration, Running if and only if the
\* replaced one was Running when the call began and Stopped otherwise
C31_UpdateReplacesStoppedExecutor ==
    [][last'.op = "update_return" =>
          /\ \A t \in DOMAIN ex'[call.e].loops : ~Alive(ex'[call.e].loops[t].pc)
          /\ ex'[pipelines'[last'.p]].config = call.by.cfg
          /\ ex'[pipelines'[last'.p]].status =
                 IF call.by.restart THEN "running" ELSE "stopped"]_vars

\* C35: a startup that runs initialize() never replaces, under a node id, an
\* initialized node instance of the node map that has not had cleanup()
\* called on it
C35_NoNodeReplacedUncleaned ==
    [][\A e \in DOMAIN ex :
          (last'.op \in {"initialize", "start"} /\ last'.e = e
              /\ ex'[e].inits > ex[e].inits) =>
             LET cfgn == ex[e].config.nodes
                 stops == {j \in DOMAIN cfgn :
                              \/ cfgn[j].node_id \in last'.failed
                              \/ cfgn[j].node_type \notin DOMAIN NODE_REGISTRY}
                 put == {cfgn[j].node_id : j \in {j \in DOMAIN cfgn : \A k \in stops : j < k}}
             IN  \A i \in DOMAIN ex[e].nodes :
                    (ex[e].nodes[i].node_id \in put /\ ex[e].nodes[i].is_initialized)
                        => ex[e].nodes[i].released]_vars

\* C36: every step that changes the status of an executor passes the new
\* status to the status callback, so that the status delivered last is the
\* status of the executor
C36_StatusChangesDelivered ==
    [][\A e \in DOMAIN ex :
          (e \in DOMAIN ex' /\ ex'[e].status # ex[e].status) =>
              /\ last'.notified # <<>>
              /\ last'.notified[Len(last'.notified)] = ex'[e].status]_vars

\* C39: in a tick a node that is not an input node is invoked exactly when
\* some connection into it has a source whose output is in the output map
\* when the node's turn comes; its input is then the output of the first such
\* connection in the order of the configured edges; a node without such a
\* connection is not invoked and adds neither a result nor an error
C39_FirstAvailableSourceFeeds ==
    [][\A e \in DOMAIN ex :
          TickOf(e) =>
             LET order == get_processing_order(ex[e])
                 conns == ex[e].connections
             IN  \A k \in DOMAIN order :
                    LET n == order[k]
                        avail == last'.inputs
                                    \cup {order[i] : i \in {i \in 1..(k - 1) :
                                                              order[i] \in last'.outputs}}
                        into == {j \in DOMAIN conns :
                                    /\ conns[j].target_node_id = n
                                    /\ conns[j].source_node_id \in avail}
                    IN  ~IsInputNode(ex[e].nodes[NodeIndex(ex[e], n)]) =>
                           /\ n \in last'.invoked <=> (last'.inputs # {} /\ into # {})
                           /\ \A j \in into :
                                 (\A i \in into : j <= i) =>
                                    get_node_input_data(ex[e], n, avail)
                                        = {conns[j].source_node_id}
                           /\ into = {} =>
                                 /\ get_node_input_data(ex[e], n, avail) = {}
                                 /\ n \notin last'.outputs
                                 /\ n \notin last'.failed]_vars

\* a tick in which the detector failed and the counting node, connected to the
\* detector first and to the input node second, was invoked on the frame
C39_Witness ==
    /\ last.op = "tick"
    /\ Len(ex[last.e].connections) = 3
    /\ last.inputs = {"in"}
    /\ last.failed = {"det"}
    /\ "cnt" \in last.invoked
    /\ "cnt" \in last.outputs

C7_OneLoopOneCapture ==
    \A e \in DOMAIN ex :
        /\ Cardinality(AliveLoops(ex[e])) <= 1
        /\ \A i \in DOMAIN ex[e].nodes : Cardinality(AliveCaptures(ex[e].nodes[i])) <= 1
        /\ \A node \in ex[e].detached : Cardinality(AliveCaptures(node)) <= 1

\* C8: a loop thread that was alive when stop() set the cancellation flag
\* never begins another tick.
C8_StopObservedWithinOneTick ==
    [][\A e \in DOMAIN ex : \A t \in DOMAIN ex[e].loops :
          (ex[e].loops[t].cancelled /\ ex[e].loops[t].pc = "check") =>
              ex'[e].loops[t].pc # "tick"]_vars

\* C9: when stop() returns, and when cleanup() has released the nodes and
\* cleared the node map, the execution loops and the capture loops of the
\* nodes concerned have terminated.
C9_ReleasedAfterLoopsExit ==
    \A e \in DOMAIN ex :
        (last.e = e /\ last.op \in {"stop_return", "cleanup_return"}) =>
            /\ AliveLoops(ex[e]) = {}
            /\ \A i \in DOMAIN ex[e].nodes : AliveCaptures(ex[e].nodes[i]) = {}
            /\ \A node \in ex[e].detached : node.released => AliveCaptures(node) = {}

----------------------------------------------------------------------------
(* Claims about the camera node *)

\* C11: with no consumer, after the capture loop has offered k frames to a
\* buffer of configured capacity N the buffer holds exactly the min(k, N) most
\* recently captured frames in capture order, and its size never exceeds N.
C11_DropOldest ==
    LET q == cam.frame_queue
        k == cam.captured
        N == cam.buffer_size
        m == IF k < N THEN k ELSE N
    IN  /\ Len(q) <= N
        /\ ~cam.polled =>
              /\ Len(q) = m
              /\ \A i \in DOMAIN q : q[i].seq = k - m + (i - 1)

\* C33: when the capture loop has finished offering a frame, that frame is in
\* the buffer, whatever get_next_frame() calls ran between the steps of the
\* offer
C33_NewestFrameAdmitted ==
    [][(last'.op = "offer" /\ cam'.threads[last'.e].pc \in {"test", "dead"}) =>
          \A f \in last'.inputs :
              \E i \in DOMAIN cam'.frame_queue : cam'.frame_queue[i] = f]_vars

\* C12: every frame handed out by get_next_frame() carries a frame_id strictly
\* greater than that of every frame handed out before it, also after frames
\* have been dropped because the buffer was full.
C12_FrameIdsIncrease ==
    [][last'.op = "get_next_frame" =>
          \A frame \in last'.outputs : frame.frame_id > cam.handed_max]_vars

\* C16: a capture loop makes at most the configured number of reconnect
\* attempts against a source that stays down, then terminates, and the
\* exhaustion is recorded on the node (error message set, not running).
C16_BoundedReconnect ==
    \A k \in DOMAIN cam.threads :
        LET th == cam.threads[k] IN
        /\ th.attempts <= cam.reconnect_attempts
        /\ (th.attempts > 0 /\ th.attempts >= cam.reconnect_attempts
                /\ th.pc # "reconnect") =>
              /\ th.pc = "dead"
              /\ cam.error_message # "none"
              /\ ~cam.is_running

\* C17: once stop_stream() has set the flag, a capture loop that was alive
\* begins no read and no reconnect attempt beyond the one in progress.
C17_StopObservedWithinOneAttempt ==
    \A k \in DOMAIN cam.threads : ~cam.threads[k].late

----------------------------------------------------------------------------
(* Claims about the analytics nodes *)

\* C13: over the frames of one object moving along a straight path
\* perpendicular to a bidirectional line and through it, exactly one crossing
\* event is emitted, with the direction of the cross-product sign convention.
C13_OneCrossing ==
    LET obj == an.obj
        line == an.lines[1]
    IN  (line.direction = "both" /\ obj.seen = 1 /\ (obj.from - 2) * (obj.x - 2) < 0) =>
            /\ Len(an.crossing_events) = 1
            /\ an.crossing_events[1].direction =
                   line_intersection(<<obj.from, obj.row>>, <<obj.x, obj.row>>,
                                     line.start, line.end).direction

\* C14: in every process() call an intrusion event is emitted for a zone
\* exactly when the zone's count of objects inside it whose class is not in
\* its allow-list is at or above alert_threshold in that call and was below
\* it in the call before, or there was no call before.
C14_EdgeTriggered ==
    (an.cls = "AreaIntrusionNode" /\ an.calls > 0) =>
        \A z \in DOMAIN an.zones :
            LET zone == an.zones[z]
                Count(detections) ==
                    Cardinality({i \in DOMAIN detections :
                        /\ point_in_polygon(get_center_point(detections[i].bbox), zone.polygon)
                        /\ detections[i].class_name \notin zone.allowed_classes})
                emitted == \E i \in DOMAIN an.new_intrusions :
                               an.new_intrusions[i].zone_id = zone.id
                rising == /\ Count(an.detections) >= zone.alert_threshold
                          /\ \A before \in an.previous : Count(before) < zone.alert_threshold
            IN  emitted <=> rising

\* C15: the count process() reports for a zone is the number of detections
\* whose centre is inside the zone's polygon and whose class is not in the
\* zone's allowed_classes, for every allow-list including the empty one.
C15_AllowListExemption ==
    (an.cls = "AreaIntrusionNode" /\ an.calls > 0) =>
        \A z \in DOMAIN an.zones :
            LET zone == an.zones[z]
                unique == \A y \in DOMAIN an.zones : an.zones[y].id = zone.id => y = z
                counted == {i \in DOMAIN an.detections :
                    /\ point_in_polygon(get_center_point(an.detections[i].bbox), zone.polygon)
                    /\ an.detections[i].class_name \notin zone.allowed_classes}
            IN  unique => an.zone_status[zone.id].objects_count = Cardinality(counted)

\* C25: a person detection that is the only one of its frame and lies within
\* the maximum tracking distance of exactly one track sighted less than the
\* timeout ago is given the id of that track, whether or not the track was
\* matched in the frames in between.
C25_TrackKeptUntilTimeout ==
    [][(/\ an.cls = "PeopleCountingNode"
        /\ last'.op = "process"
        /\ Len(an'.current_people) = 1) =>
          LET person == an'.current_people[1]
              Near == {t \in an.sightings :
                          /\ an'.now - t.last_seen < an.person_timeout
                          /\ (person.center[1] - t.center[1]) * (person.center[1] - t.center[1])
                               + (person.center[2] - t.center[2])
                                   * (person.center[2] - t.center[2])
                               < an.max_tracking_distance * an.max_tracking_distance}
          IN  \A t \in Near : Near = {t} => person.id = t.id]_vars

\* C26: a crossing is reported only for a movement that intersects the line
\* strictly: the previous and the current centre lie strictly on opposite
\* sides of the line, and the two ends of the line strictly on opposite sides
\* of the movement; a movement that only touches the line reports nothing.
C26_StrictIntersection ==
    \A i \in DOMAIN an.moves :
        LET move == an.moves[i]
            line == an.lines[1]
            Side(p, a, b) == (b[1] - a[1]) * (p[2] - a[2]) - (b[2] - a[2]) * (p[1] - a[1])
        IN  move.crossing # {} =>
                /\ Side(move.from, line.start, line.end)
                       * Side(move.to, line.start, line.end) < 0
                /\ Side(line.start, move.from, move.to)
                       * Side(line.end, move.from, move.to) < 0

\* C27: for one object id, every crossing event carries the direction given
\* by the sign of the cross product of the movement vector and the line
\* vector, forward when positive and backward when negative; an event is
\* emitted only when the line's setting is `both` or is that direction; and
\* when a movement that emitted an event is followed by the reversed
\* movement, no event of the same direction is emitted, and under `both` one
\* of the opposite direction is.
C27_DirectionBySign ==
    LET line == an.lines[1]
        Cross(move) == (move.to[1] - move.from[1]) * (line.end[2] - line.start[2])
                       - (move.to[2] - move.from[2]) * (line.end[1] - line.start[1])
        Opposite(d) == IF d = "forward" THEN "backward" ELSE "forward"
    IN  /\ \A i \in DOMAIN an.moves : \A c \in an.moves[i].crossing :
              /\ Cross(an.moves[i]) # 0
              /\ c.direction = (IF Cross(an.moves[i]) > 0 THEN "forward" ELSE "backward")
              /\ line.direction \in {"both", c.direction}
        /\ (/\ Len(an.moves) = 2
            /\ an.moves[2].from = an.moves[1].to
            /\ an.moves[2].to = an.moves[1].from) =>
              \A c \in an.moves[1].crossing :
                  /\ \A back \in an.moves[2].crossing : back.direction = Opposite(c.direction)
                  /\ line.direction = "both" => an.moves[2].crossing # {}

\* C27, witness: a movement through the line that emitted a forward event,
\* followed by the reversed movement, which emitted a backward event
C27_Witness ==
    /\ Len(an.moves) = 2
    /\ an.moves[2].from = an.moves[1].to
    /\ an.moves[2].to = an.moves[1].from
    /\ \E c \in an.moves[1].crossing : c.direction = "forward"
    /\ \E c \in an.moves[2].crossing : c.direction = "backward"

\* C29: for every class of the registry, initialized or not, cleanup()
\* completes without raising, and a cleanup() that follows a cleanup() leaves
\* the node as the first one left it.
C29_CleanupRepeatable ==
    [][last'.op = "cleanup" =>
          /\ last'.ok
          /\ last.op = "cleanup" => an' = an]_vars

\* C32: the entries LineCrossingNode keeps across calls for objects that are no
\* longer seen are eventually removed: once the frames show no object, the
\* tracking data comes to hold no entry
C32_UnseenObjectsForgotten ==
    (an.obj.seen = 2) ~> (DOMAIN an.tracking_data = {})

\* C34: a manager query made by a subscriber from inside a callback never
\* waits for the registry lock while the operation that triggered the
\* callback holds it, so the query returns and the operation completes
C34_QueryFromCallbackReturns ==
    ~(/\ call.op = "get_pipeline_status"
      /\ call.then = "acquire"
      /\ call.by.mgr # "none"
      /\ lock)

\* C37: for a node with several lines, the crossing events of one movement of
\* an object are those of every line tested on its own against the position
\* the object had before the frame, whatever the line's place in the list
C37_LinesTestedIndependently ==
    [][(last'.op = "check_lines" /\ "obj" \in DOMAIN an.tracking_data) =>
          \A pos \in last'.inputs :
             last'.outputs =
                UNION {check_line_crossing(an, "obj", pos, an.lines[j]).crossing :
                          j \in DOMAIN an.lines}]_vars

\* C38: in one process() call no two detections receive the same track id,
\* the count reported is the number of detections of the tracked classes in
\* the frame, and every id spawned by the call is greater than every id the
\* node has issued before, also when cleanup() was called in between
C38_TrackIdsUniqueAndIncreasing ==
    [][(an.cls = "PeopleCountingNode" /\ last'.op = "process") =>
          LET people == an'.current_people
              tracked == {an.person_tracker[j].id : j \in DOMAIN an.person_tracker}
              spawned == {people[k].id : k \in DOMAIN people} \ tracked
          IN  /\ \A k, l \in DOMAIN people : people[k].id = people[l].id => k = l
              /\ last'.inputs = {Len(people)}
              /\ an'.count_history[Len(an'.count_history)] = Len(people)
              /\ \A id \in spawned : \A t \in an.sightings : id > t.id]_vars

\* after a cleanup() that followed calls which issued ids, a call with two
\* person detections has spawned two further ids
C38_Witness ==
    /\ an.cls = "PeopleCountingNode"
    /\ last.op = "process"
    /\ an.cleared > 0
    /\ Len(an.current_people) = 2
    /\ \E t \in an.sightings : \A k \in DOMAIN an.current_people :
          t.id < an.current_people[k].id
    /\ an.next_person_id = an.current_people[2].id + 1
    /\ an.current_people[2].id = an.current_people[1].id + 1

----------------------------------------------------------------------------
(* Claims about the manager *)

\* a call is inside one of its joins, waiting for a thread to exit
Waiting ==
    \/ call.op = "stop" /\ ~stop_joined(ex[call.e])
    \/ call.op = "cleanup" /\ ~cleanup_joined(ex[call.e])

\* C10: while a lifecycle operation of the manager on pipeline A is executing
\* inside A's executor (stop, delete or update_config waiting for A's threads
\* to exit), a manager operation on a different registered pipeline B (here
\* get_status) can proceed without waiting for A's operation to finish.
C10_OtherPipelinesProceed ==
    \A b \in DOMAIN pipelines :
        (Waiting /\ call.by.mgr # "none" /\ call.by.p # b) =>
            ENABLED get_pipeline_status(b)

====
